---- MODULE Spec2Model ----
(***************************************************************************)
(* Model of cw-orch's interchain channel tracking                          *)
(* (cw-orch/src/interchain/interchain_channel.rs): the InterchainChannel   *)
(* object, the packet follower follow_packet and the channel-creation      *)
(* correlator find_new_channel_creation_tx.  Every .await of the source    *)
(* (a node query, a sleep) is a suspension point and thus a step boundary. *)
(***************************************************************************)
EXTENDS Integers, Sequences, FiniteSets, TLC

\* ------------------------------------------------------------------ bounds

\* Largest number of transactions one event query returns.
MaxMatches == 2
\* The uploads a run follows.
MaxUploads == 2
\* The heights of the simulated chains and the packets sent over them.
MaxMockHeight == 3
MaxPackets == 2
\* The largest u64, scaled down: heights and amounts are 0..MaxU64.
MaxU64 == 7

\* ------------------------------------------------------- program constants

\* for _ in 0..5
MaxAttempts == 5
\* sleep(Duration::from_secs(10))
SleepSecs == 10

\* --------------------------------------------------------- Option / Result

None == <<>>
Some(x) == <<x>>
unwrap_or(o, d) == IF o = None THEN d ELSE o[1]

Ok(v) == [ok |-> TRUE, val |-> v]
Err(e) == [ok |-> FALSE, err |-> e]

\* ------------------------------------------------------------- DaemonError

ibc_err(msg) == [variant |-> "IbcError", msg |-> msg]
TxFailed(code, reason) == [variant |-> "TxFailed", code |-> code, reason |-> reason]
AnyError(msg) == [variant |-> "AnyError", msg |-> msg]
\* The failure of the node query itself (transport, decoding).
TransportError == [variant |-> "GrpcError", msg |-> <<"transport error">>]

\* ----------------------------------------------------------- input domains

ChainIds == {"A", "B", "C"}
PacketSequences == {"1", "2"}
TxHashes == {"H1", "H2"}
FailCodes == {5, 11}

\* Acknowledgment strings as they appear in the packet_ack attribute, by shape:
\* {"result": <base64>}, {"error": <text>}, or any other text.
ResultEnvelope(b64) == [form |-> "result", body |-> b64]
ErrorEnvelope(e) == [form |-> "error", body |-> e]
OpaqueText(t) == [form |-> "text", body |-> t]

AckStrings ==
    { ResultEnvelope("aGk="), ResultEnvelope("/w=="), ResultEnvelope("!!"),
      ErrorEnvelope("oops"), OpaqueText("plain") }

Attr(k, v) == [key |-> k, value |-> v]
Event(t, attrs) == [type |-> t, attributes |-> attrs]

FullAttributes(ack) ==
    << Attr("packet_sequence", OpaqueText("1")), Attr("packet_data", OpaqueText("d")),
       Attr("packet_ack", ack) >>

RecvPacket == Event("recv_packet", << Attr("packet_sequence", OpaqueText("1")) >>)

\* The event lists a transaction that received a packet can carry: the
\* acknowledgment written in the same transaction, well formed or not, or none.
RecvEventLists ==
    { << RecvPacket, Event("write_acknowledgement", FullAttributes(a)) >> : a \in AckStrings }
    \cup
    { << RecvPacket >>,
      << RecvPacket,
         Event("write_acknowledgement",
               << Attr("packet_data", OpaqueText("d")),
                  Attr("packet_ack", OpaqueText("plain")) >>) >>,
      << RecvPacket,
         Event("write_acknowledgement",
               << Attr("packet_sequence", OpaqueText("1")),
                  Attr("packet_ack", OpaqueText("plain")) >>) >>,
      << RecvPacket,
         Event("write_acknowledgement",
               << Attr("packet_sequence", OpaqueText("1")),
                  Attr("packet_data", OpaqueText("d")) >>) >>,
      << RecvPacket,
         Event("write_acknowledgement",
               << Attr("packet_sequence", OpaqueText("1")),
                  Attr("packet_data", OpaqueText("d")),
                  Attr("packet_ack", OpaqueText("plain")),
                  Attr("packet_ack", ErrorEnvelope("oops")) >>) >> }

CosmTxResponse(h, c, log, evs) ==
    [txhash |-> h, code |-> c, raw_log |-> log, events |-> evs]

RawLogOf(c) == IF c = 5 THEN "out of gas" ELSE "unauthorized"

\* The transactions a node can return for a filter on the given event type.
TxPool(event_type) ==
    IF event_type = "recv_packet"
    THEN { CosmTxResponse(h, 0, "", evs) : h \in TxHashes, evs \in RecvEventLists }
         \cup { CosmTxResponse("H1", c, RawLogOf(c), << RecvPacket >>) : c \in FailCodes }
         \cup { CosmTxResponse("H2", 11, RawLogOf(11),
                                << RecvPacket,
                                   Event("write_acknowledgement",
                                         FullAttributes(ErrorEnvelope("oops"))) >>) }
    ELSE { CosmTxResponse(h, 0, "", << Event(event_type, <<>>) >>) : h \in TxHashes }
         \cup { CosmTxResponse(h, c, RawLogOf(c), << Event(event_type, <<>>) >>) :
                    h \in TxHashes, c \in IF event_type = "acknowledge_packet" THEN FailCodes ELSE {} }

RECURSIVE SeqsUpTo(_, _)
SeqsUpTo(S, n) ==
    IF n = 0 THEN { <<>> }
    ELSE LET shorter == SeqsUpTo(S, n - 1)
         IN shorter \cup { Append(s, x) : s \in { t \in shorter : Len(t) = n - 1 }, x \in S }

\* The handshake transactions a node can return for a query: the two ports
\* have channels over two connections, and a transaction matches when it is
\* of the connection the query names, of either when the query names none.
HandshakeTxs(query) ==
    LET named == { query.events[i][5] :
                     i \in { i \in 1..Len(query.events) : query.events[i][3] = "connection_id" } }
    IN  { CosmTxResponse(h, 0, "",
                         << Event(query.events[1][1], << Attr("connection_id", c) >>) >>) :
            h \in TxHashes,
            c \in IF named = {} THEN { "connection-0", "connection-1" } ELSE named }

\* What the node can answer to a query: a transport error, or the matching
\* transactions (none, one, several), most recent first when ordered Desc.
QueryResponses(query) ==
    { Err(TransportError) }
    \cup { Ok(s) : s \in SeqsUpTo(IF query.events[1][1]
                                       \in { "channel_open_ack", "channel_open_confirm" }
                                  THEN HandshakeTxs(query)
                                  ELSE TxPool(query.events[1][1]),
                                  MaxMatches) }

\* ------------------------------------------------------ InterchainChannel

InterchainPort(chain, chain_id, port, channel) ==
    [chain |-> chain, chain_id |-> chain_id, port |-> port, channel |-> channel]

\* InterchainChannel::new
new(connection_id, port_a, port_b) ==
    [connection_id |-> connection_id, port_a |-> port_a, port_b |-> port_b]

\* The channel pairs the callers construct: new() checks nothing.
ChannelPairs ==
    { new("connection-0",
          InterchainPort("grpc-a", "A", "transfer", ca),
          InterchainPort("grpc-b", idb, "wasm.host", cb)) :
        ca \in { None, Some("channel-0") },
        cb \in { None, Some("channel-7") },
        idb \in { "A", "B" } }

get_connection(self) == self.connection_id

UnknownChainError(chain_id) ==
    ibc_err(<< "chain ", chain_id, ", doesn't exist in the InterchainChannel object" >>)

get_chain(self, chain_id) ==
    IF chain_id = self.port_a.chain_id THEN Ok(self.port_a)
    ELSE IF chain_id = self.port_b.chain_id THEN Ok(self.port_b)
    ELSE Err(UnknownChainError(chain_id))

\* The pair in declaration order, whichever chain is asked for.
get_ordered_ports_from_unordered(self, from) ==
    IF from = self.port_a.chain_id \/ from = self.port_b.chain_id
    THEN Ok(<< self.port_a, self.port_b >>)
    ELSE Err(UnknownChainError(from))

get_ordered_ports_from(self, from) ==
    IF from = self.port_a.chain_id THEN Ok(<< self.port_a, self.port_b >>)
    ELSE IF from = self.port_b.chain_id THEN Ok(<< self.port_b, self.port_a >>)
    ELSE Err(UnknownChainError(from))

NoChannelError(self) ==
    ibc_err(<< "No channel registered between ", self.port_a.chain_id, " and ",
               self.port_b.chain_id, " on connection ", self.connection_id >>)

\* format!("<event>.<attribute>='{}'", value)
EventFilter(event_type, attribute, value) == << event_type, ".", attribute, "='", value, "'" >>

\* A query handed to Node::new(chain): the handle, the event filters, the
\* page and the order.
Query(chain, events, order) == [chain |-> chain, events |-> events, order |-> order]

\* get_packet_receive_tx testing the channel of the source port.
packet_receive_query_src_channel(self, from, packet_sequence) ==
    LET ports == get_ordered_ports_from(self, from) IN
    IF ~ports.ok THEN Err(ports.err)
    ELSE LET src_port == ports.val[1]
             dst_port == ports.val[2] IN
         IF src_port.channel = None THEN Err(NoChannelError(self))
         ELSE Ok(Query(dst_port.chain,
                       << EventFilter("recv_packet", "packet_dst_port", dst_port.port),
                          EventFilter("recv_packet", "packet_dst_channel", src_port.channel[1]),
                          EventFilter("recv_packet", "packet_sequence", packet_sequence) >>,
                       None))

\* get_packet_receive_tx up to its query: the ports, the filters (the `?` on
\* the missing channel), the handle the query goes to.
packet_receive_query(self, from, packet_sequence) ==
    LET ports == get_ordered_ports_from(self, from) IN
    IF ~ports.ok THEN Err(ports.err)
    ELSE LET dst_port == ports.val[2] IN
         IF dst_port.channel = None THEN Err(NoChannelError(self))
         ELSE Ok(Query(dst_port.chain,
                       << EventFilter("recv_packet", "packet_dst_port", dst_port.port),
                          EventFilter("recv_packet", "packet_dst_channel", dst_port.channel[1]),
                          EventFilter("recv_packet", "packet_sequence", packet_sequence) >>,
                       None))

\* get_packet_ack_receive_tx with the port of the source endpoint in its filter.
packet_ack_receive_query_src_port(self, from, packet_sequence) ==
    LET ports == get_ordered_ports_from(self, from) IN
    IF ~ports.ok THEN Err(ports.err)
    ELSE LET src_port == ports.val[1]
             dst_port == ports.val[2] IN
         IF dst_port.channel = None THEN Err(NoChannelError(self))
         ELSE Ok(Query(src_port.chain,
                       << EventFilter("acknowledge_packet", "packet_dst_port", src_port.port),
                          EventFilter("acknowledge_packet", "packet_dst_channel", dst_port.channel[1]),
                          EventFilter("acknowledge_packet", "packet_sequence", packet_sequence) >>,
                       None))

\* get_packet_ack_receive_tx up to its query.
packet_ack_receive_query(self, from, packet_sequence) ==
    LET ports == get_ordered_ports_from(self, from) IN
    IF ~ports.ok THEN Err(ports.err)
    ELSE LET src_port == ports.val[1]
             dst_port == ports.val[2] IN
         IF dst_port.channel = None THEN Err(NoChannelError(self))
         ELSE Ok(Query(src_port.chain,
                       << EventFilter("acknowledge_packet", "packet_dst_port", dst_port.port),
                          EventFilter("acknowledge_packet", "packet_dst_channel", dst_port.channel[1]),
                          EventFilter("acknowledge_packet", "packet_sequence", packet_sequence) >>,
                       None))

\* get_channel_creation_ack with its query sent to the destination chain.
channel_creation_ack_query_on_dst(self, from) ==
    LET ports == get_ordered_ports_from(self, from) IN
    IF ~ports.ok THEN Err(ports.err)
    ELSE LET src_port == ports.val[1]
             dst_port == ports.val[2] IN
         Ok(Query(dst_port.chain,
                  << EventFilter("channel_open_ack", "port_id", src_port.port),
                     EventFilter("channel_open_ack", "counterparty_port_id", dst_port.port),
                     EventFilter("channel_open_ack", "connection_id", self.connection_id) >>,
                  Some("Desc")))

\* get_channel_creation_ack up to its query.
channel_creation_ack_query(self, from) ==
    LET ports == get_ordered_ports_from(self, from) IN
    IF ~ports.ok THEN Err(ports.err)
    ELSE LET src_port == ports.val[1]
             dst_port == ports.val[2] IN
         Ok(Query(src_port.chain,
                  << EventFilter("channel_open_ack", "port_id", src_port.port),
                     EventFilter("channel_open_ack", "counterparty_port_id", dst_port.port),
                     EventFilter("channel_open_ack", "connection_id", self.connection_id) >>,
                  Some("Desc")))

\* get_channel_creation_confirm up to its query.
channel_creation_confirm_query(self, from) ==
    LET ports == get_ordered_ports_from(self, from) IN
    IF ~ports.ok THEN Err(ports.err)
    ELSE LET src_port == ports.val[1]
             dst_port == ports.val[2] IN
         Ok(Query(dst_port.chain,
                  << EventFilter("channel_open_confirm", "port_id", dst_port.port),
                     EventFilter("channel_open_confirm", "counterparty_port_id", src_port.port) >>,
                  Some("Desc")))

\* The first match taken, however many there are.
get_tx_by_events_and_assert_some(response) ==
    IF ~response.ok THEN Err(response.err)
    ELSE IF Len(response.val) = 0
    THEN Err(ibc_err(<< "Found multiple transactions matching a send packet event, this is impossible (or cw-orch impl is at fault)" >>))
    ELSE Ok(response.val[1])

\* get_tx_by_events_and_assert_one, from the answer of find_some_tx_by_events.
MultipleTxError ==
    ibc_err(<< "Found multiple transactions matching a send packet event, this is impossible (or cw-orch impl is at fault)" >>)

get_tx_by_events_and_assert_one(response) ==
    IF ~response.ok THEN Err(response.err)
    ELSE IF Len(response.val) # 1 THEN Err(MultipleTxError)
    ELSE Ok(response.val[1])

\* Vec::get(0).cloned()
get_0(txs) == IF Len(txs) = 0 THEN None ELSE Some(txs[1])

\* ------------------------------------------------- CosmTxResponse helpers

\* CosmTxResponse::get_events: the events of the given type, in order.
get_events(tx, event_type) == SelectSeq(tx.events, LAMBDA e : e.type = event_type)

RECURSIVE FirstWithKey(_, _)
FirstWithKey(attrs, key) ==
    IF attrs = <<>> THEN None
    ELSE IF Head(attrs).key = key THEN Some(Head(attrs).value)
    ELSE FirstWithKey(Tail(attrs), key)

\* Event::get_first_attribute_value
get_first_attribute_value(event, key) == FirstWithKey(event.attributes, key)

\* ------------------------------------------------ acknowledgment decoding

\* serde_json::from_str::<AckResponse>: the two-variant envelope, or a parse
\* error for any other text.
parse_ack(acknowledgment) ==
    IF acknowledgment.form = "result" THEN Ok([variant |-> "Result", inner |-> acknowledgment.body])
    ELSE IF acknowledgment.form = "error" THEN Ok([variant |-> "Error", inner |-> acknowledgment.body])
    ELSE Err("expected AckResponse")

\* general_purpose::STANDARD.decode on the strings of AckStrings.
base64_decode(b) ==
    IF b = "aGk=" THEN Ok(<< 104, 105 >>)
    ELSE IF b = "/w==" THEN Ok(<< 255 >>)
    ELSE Err("invalid base64")

\* vec![] when the decoding failed
decode_or_empty(b) == LET d == base64_decode(b) IN IF d.ok THEN d.val ELSE <<>>

\* std::str::from_utf8 on the byte strings above (all of them one-byte code
\* points or invalid).
from_utf8(bytes) ==
    IF \A i \in 1..Len(bytes) : bytes[i] < 128
    THEN Ok(IF bytes = << 104, 105 >> THEN "hi" ELSE "")
    ELSE Err("invalid utf-8")

\* decoded_ack of follow_packet. A panic is no value of it: "Panic" stands for
\* the abort of the task.
decoded_ack_of(acknowledgment) ==
    LET parsed_ack == parse_ack(acknowledgment) IN
    IF parsed_ack.ok
    THEN IF parsed_ack.val.variant = "Result"
         THEN LET b == parsed_ack.val.inner
                  d == from_utf8(decode_or_empty(b)) IN
              IF d.ok THEN << "Decoded successful ack : ", d.val >>
              ELSE << "Couldn't decode following successful ack : ", b >>
         ELSE << "Ack error : ", parsed_ack.val.inner >>
    ELSE << acknowledgment.body >>

\* --------------------------------------------------- steps of follow_packet

RawLogReason(chain_id, raw_log) == << "Raw log on ", chain_id, " : ", raw_log >>

\* The status code not looked at.
tx_failed_unchecked(tx, chain_id) == None

\* Lines 305-314 and 364-373: a transaction with a non-zero code fails the call.
tx_failed(tx, chain_id) ==
    IF tx.code # 0
    THEN Some(TxFailed(tx.code, RawLogReason(chain_id, tx.raw_log)))
    ELSE None

\* The attributes read with the last match of each key.
read_acknowledgement_last_match(tx) ==
    LET events == get_events(tx, "write_acknowledgement")
        Last(attrs, key) ==
            IF \E i \in 1..Len(attrs) : attrs[i].key = key
            THEN Some(attrs[CHOOSE i \in 1..Len(attrs) :
                                /\ attrs[i].key = key
                                /\ \A j \in (i + 1)..Len(attrs) : attrs[j].key # key].value)
            ELSE None IN
    IF Len(events) = 0 THEN [panic |-> TRUE]
    ELSE LET recv_packet_sequence == Last(events[1].attributes, "packet_sequence")
             recv_packet_data == Last(events[1].attributes, "packet_data")
             acknowledgment == Last(events[1].attributes, "packet_ack") IN
         IF recv_packet_sequence = None \/ recv_packet_data = None \/ acknowledgment = None
         THEN [panic |-> TRUE]
         ELSE [panic |-> FALSE,
               recv_packet_sequence |-> recv_packet_sequence[1],
               recv_packet_data |-> recv_packet_data[1],
               acknowledgment |-> acknowledgment[1]]

\* Lines 317-325: [0] on the events of type write_acknowledgement and
\* unwrap() on each of the three attributes; any of them may panic.
read_acknowledgement(tx) ==
    LET events == get_events(tx, "write_acknowledgement") IN
    IF Len(events) = 0 THEN [panic |-> TRUE]
    ELSE LET recv_packet_sequence == get_first_attribute_value(events[1], "packet_sequence")
             recv_packet_data == get_first_attribute_value(events[1], "packet_data")
             acknowledgment == get_first_attribute_value(events[1], "packet_ack") IN
         IF recv_packet_sequence = None \/ recv_packet_data = None \/ acknowledgment = None
         THEN [panic |-> TRUE]
         ELSE [panic |-> FALSE,
               recv_packet_sequence |-> recv_packet_sequence[1],
               recv_packet_data |-> recv_packet_data[1],
               acknowledgment |-> acknowledgment[1]]

\* The same with unwrap() on the base64 decoding.
received_step_strict(tx, dst_chain_id) ==
    IF tx.code # 0
    THEN [kind |-> "return",
          value |-> Err(TxFailed(tx.code, << "Raw log on ", dst_chain_id, " : ", tx.raw_log >>))]
    ELSE LET read == read_acknowledgement(tx) IN
         IF read.panic THEN [kind |-> "panic"]
         ELSE IF /\ parse_ack(read.acknowledgment).ok
                 /\ parse_ack(read.acknowledgment).val.variant = "Result"
                 /\ ~base64_decode(parse_ack(read.acknowledgment).val.inner).ok
         THEN [kind |-> "panic"]
         ELSE [kind |-> "continue", decoded_ack |-> decoded_ack_of(read.acknowledgment)]

\* The same with the status code of the receive transaction not looked at.
received_step_any_code(tx, dst_chain_id) ==
    LET read == read_acknowledgement(tx) IN
    IF read.panic THEN [kind |-> "panic"]
    ELSE [kind |-> "continue", decoded_ack |-> decoded_ack_of(read.acknowledgment)]

\* Lines 305-347, on the receive transaction found: the call returns an
\* error, panics, or goes on with the decoded acknowledgment.
received_step(tx, dst_chain_id) ==
    IF tx_failed(tx, dst_chain_id) # None
    THEN [kind |-> "return", value |-> Err(tx_failed(tx, dst_chain_id)[1])]
    ELSE LET read == read_acknowledgement(tx) IN
         IF read.panic THEN [kind |-> "panic"]
         ELSE [kind |-> "continue", decoded_ack |-> decoded_ack_of(read.acknowledgment)]

TxId(chain_id, channel, tx_hash) ==
    [chain_id |-> chain_id, channel |-> channel, tx_hash |-> tx_hash]

\* The vector with the acknowledgment first.
followed_txs_swapped(src, dst, received, ack) ==
    << TxId(src.chain_id, src.chain, ack.txhash),
       TxId(dst.chain_id, dst.chain, received.txhash) >>

\* Lines 381-392: the vector returned.
followed_txs(src, dst, received, ack) ==
    << TxId(dst.chain_id, dst.chain, received.txhash),
       TxId(src.chain_id, src.chain, ack.txhash) >>

\* Lines 364-392, on the acknowledgment transaction found.
acknowledged_step(tx, src, dst, received) ==
    IF tx_failed(tx, src.chain_id) # None
    THEN Err(tx_failed(tx, src.chain_id)[1])
    ELSE Ok(followed_txs(src, dst, received, tx))

\* ------------------------------------ steps of find_new_channel_creation_tx

\* {:?} of an Option<String>
DebugOption(o) == IF o = None THEN << "None" >> ELSE << "Some(", o[1], ")" >>

NoNewChannelError(hashes) ==
    AnyError(<< "No new channel creation TX newer than (from_tx_hash: " >>
             \o DebugOption(hashes[1]) \o << ") or (to_tx_hash: " >>
             \o DebugOption(hashes[2]) \o << ") found" >>)

\* The test with || between the two hash comparisons.
is_new_channel_creation_either(tx, last_chain_creation_hashes) ==
    /\ tx[1] # None
    /\ tx[2] # None
    /\ \/ tx[1][1].txhash # unwrap_or(last_chain_creation_hashes[1], "")
       \/ tx[2][1].txhash # unwrap_or(last_chain_creation_hashes[2], "")

\* The test that compares the handshake-ack hash only.
is_new_channel_creation_ack_only(tx, last_chain_creation_hashes) ==
    /\ tx[1] # None
    /\ tx[2] # None
    /\ unwrap_or(last_chain_creation_hashes[1], "") # tx[1][1].txhash

\* The test of lines 259-271 on what get_last_channel_creation returned.
is_new_channel_creation(tx, last_chain_creation_hashes) ==
    /\ tx[1] # None
    /\ tx[2] # None
    /\ tx[1][1].txhash # unwrap_or(last_chain_creation_hashes[1], "")
    /\ tx[2][1].txhash # unwrap_or(last_chain_creation_hashes[2], "")

\* ------------------------------------------------------------------ state

VARIABLES
    chan,          \* the InterchainChannel (self)
    pc,            \* where the running call is suspended, "idle" when none runs
    op,            \* the method called
    from,          \* its `from` argument
    sequence,      \* its packet sequence argument
    baseline,      \* last_chain_creation_hashes
    src_port,      \* locals of follow_packet, None until bound
    dst_port,
    received_tx,
    ack_tx,
    decoded_ack,
    cc_ack,        \* current_channel_creation_a of the running attempt
    cc_confirm,    \* current_channel_creation_b of the running attempt
    attempts,      \* iterations of the retry loop started so far
    slept,         \* seconds spent in sleep() by the running call
    queries,       \* the node queries the running call has issued, in order
    answers,       \* what the node answered in the running call (in its running
                   \* iteration, for the retry loop): number of matches, first match
    result         \* what the call returned, or that it panicked

vars == << chan, pc, op, from, sequence, baseline, src_port, dst_port, received_tx,
           ack_tx, decoded_ack, cc_ack, cc_confirm, attempts, slept, queries, answers,
           result >>

NoResult == [status |-> "none"]
Returned(r) == [status |-> "returned", value |-> r]
Panicked == [status |-> "panicked"]

Methods ==
    { "follow_packet", "get_packet_receive_tx", "get_packet_ack_receive_tx",
      "find_new_channel_creation_tx" }

Baselines == { << a, b >> : a, b \in { None } \cup { Some(h) : h \in TxHashes } }

NoBaseline == << None, None >>

\* An answer as the history keeps it: -1 matches for a failed query.
Answered(response) ==
    IF response.ok
    THEN [matches |-> Len(response.val), first |-> get_0(response.val)]
    ELSE [matches |-> -1, first |-> None]

Init ==
    /\ chan \in ChannelPairs
    /\ pc = "idle"
    /\ op = "none"
    /\ from = "A"
    /\ sequence = "1"
    /\ baseline = NoBaseline
    /\ src_port = None
    /\ dst_port = None
    /\ received_tx = None
    /\ ack_tx = None
    /\ decoded_ack = <<>>
    /\ cc_ack = None
    /\ cc_confirm = None
    /\ attempts = 0
    /\ slept = 0
    /\ queries = <<>>
    /\ answers = <<>>
    /\ result = NoResult

\* The call is over: it returned r.
Finish(r) ==
    /\ pc' = "done"
    /\ result' = Returned(r)

\* The task aborts: index out of bounds, unwrap() of None.
Panic ==
    /\ pc' = "done"
    /\ result' = Panicked

\* The call suspends on the node query it issues.
Issue(query, at) ==
    /\ queries' = Append(queries, query)
    /\ pc' = at
    /\ result' = NoResult

\* A method is entered: arguments bound, locals fresh.
Enter(method, f, s, b) ==
    /\ pc = "idle"
    /\ queries = <<>>
    /\ op' = method
    /\ from' = f
    /\ sequence' = s
    /\ baseline' = b
    /\ UNCHANGED << chan, received_tx, ack_tx, decoded_ack, cc_ack, cc_confirm, slept,
                    answers >>

\* The answers the node can give to the query in flight.
Answers == IF queries = <<>> THEN {} ELSE QueryResponses(queries[Len(queries)])

\* ---------------------------------------- get_packet_receive_tx (alone)

get_packet_receive_tx(f, s) ==
    /\ Enter("get_packet_receive_tx", f, s, NoBaseline)
    /\ UNCHANGED << src_port, dst_port, attempts >>
    /\ LET query == packet_receive_query(chan, f, s) IN
       IF query.ok THEN Issue(query.val, "tx_wait")
       ELSE Finish(Err(query.err)) /\ UNCHANGED queries

\* ------------------------------------ get_packet_ack_receive_tx (alone)

get_packet_ack_receive_tx(f, s) ==
    /\ Enter("get_packet_ack_receive_tx", f, s, NoBaseline)
    /\ UNCHANGED << src_port, dst_port, attempts >>
    /\ LET query == packet_ack_receive_query(chan, f, s) IN
       IF query.ok THEN Issue(query.val, "tx_wait")
       ELSE Finish(Err(query.err)) /\ UNCHANGED queries

\* Either of the two returns what get_tx_by_events_and_assert_one returns.
packet_tx_answered(response) ==
    /\ pc = "tx_wait"
    /\ answers' = Append(answers, Answered(response))
    /\ Finish(get_tx_by_events_and_assert_one(response))
    /\ UNCHANGED << chan, op, from, sequence, baseline, src_port, dst_port, received_tx,
                    ack_tx, decoded_ack, cc_ack, cc_confirm, attempts, slept, queries >>

\* ----------------------------------------------------------- follow_packet

\* Lines 298-303: the ports, then get_packet_receive_tx up to its query.
follow_packet(f, s) ==
    /\ Enter("follow_packet", f, s, NoBaseline)
    /\ UNCHANGED attempts
    /\ LET ports == get_ordered_ports_from(chan, f) IN
       IF ~ports.ok
       THEN /\ Finish(Err(ports.err))
            /\ UNCHANGED << src_port, dst_port, queries >>
       ELSE /\ src_port' = Some(ports.val[1])
            /\ dst_port' = Some(ports.val[2])
            /\ LET query == packet_receive_query(chan, f, s) IN
               IF query.ok THEN Issue(query.val, "recv_wait")
               ELSE Finish(Err(query.err)) /\ UNCHANGED queries

\* The receive answer handled with the receive query issued again when it
\* matched nothing.
follow_packet_received_retrying(response) ==
    /\ pc = "recv_wait"
    /\ answers' = Append(answers, Answered(response))
    /\ UNCHANGED << chan, op, from, sequence, baseline, src_port, dst_port, ack_tx,
                    cc_ack, cc_confirm, attempts, slept >>
    /\ LET found == get_tx_by_events_and_assert_one(response) IN
       IF ~found.ok
       THEN /\ UNCHANGED << received_tx, decoded_ack >>
            /\ IF response.ok /\ Len(response.val) = 0
               THEN Issue(queries[Len(queries)], "recv_wait")
               ELSE Finish(Err(found.err)) /\ UNCHANGED queries
       ELSE
       /\ received_tx' = Some(found.val)
       /\ LET step == received_step(found.val, dst_port[1].chain_id) IN
          IF step.kind = "return"
          THEN Finish(step.value) /\ UNCHANGED << decoded_ack, queries >>
          ELSE IF step.kind = "panic"
          THEN Panic /\ UNCHANGED << decoded_ack, queries >>
          ELSE
          /\ decoded_ack' = step.decoded_ack
          /\ LET query == packet_ack_receive_query(chan, src_port[1].chain_id, sequence) IN
             IF query.ok THEN Issue(query.val, "ack_wait")
             ELSE Finish(Err(query.err)) /\ UNCHANGED queries

\* Lines 303-362: the receive query is answered; the status of the
\* transaction, its acknowledgment, then get_packet_ack_receive_tx up to its query.
follow_packet_received(response) ==
    /\ pc = "recv_wait"
    /\ answers' = Append(answers, Answered(response))
    /\ UNCHANGED << chan, op, from, sequence, baseline, src_port, dst_port, ack_tx,
                    cc_ack, cc_confirm, attempts, slept >>
    /\ LET found == get_tx_by_events_and_assert_one(response) IN
       IF ~found.ok
       THEN Finish(Err(found.err)) /\ UNCHANGED << received_tx, decoded_ack, queries >>
       ELSE
       /\ received_tx' = Some(found.val)
       /\ LET step == received_step(found.val, dst_port[1].chain_id) IN
          IF step.kind = "return"
          THEN Finish(step.value) /\ UNCHANGED << decoded_ack, queries >>
          ELSE IF step.kind = "panic"
          THEN Panic /\ UNCHANGED << decoded_ack, queries >>
          ELSE
          /\ decoded_ack' = step.decoded_ack
          /\ LET query == packet_ack_receive_query(chan, src_port[1].chain_id, sequence) IN
             IF query.ok THEN Issue(query.val, "ack_wait")
             ELSE Finish(Err(query.err)) /\ UNCHANGED queries

\* Lines 360-392: the acknowledgment query is answered.
follow_packet_acknowledged(response) ==
    /\ pc = "ack_wait"
    /\ answers' = Append(answers, Answered(response))
    /\ UNCHANGED << chan, op, from, sequence, baseline, src_port, dst_port, received_tx,
                    decoded_ack, cc_ack, cc_confirm, attempts, slept, queries >>
    /\ LET found == get_tx_by_events_and_assert_one(response) IN
       IF ~found.ok
       THEN Finish(Err(found.err)) /\ UNCHANGED ack_tx
       ELSE /\ ack_tx' = Some(found.val)
            /\ Finish(acknowledged_step(found.val, src_port[1], dst_port[1], received_tx[1]))

\* --------------------------------------------- find_new_channel_creation_tx

\* One iteration of the loop begins: get_last_channel_creation up to the query
\* of get_channel_creation_ack. Its error ends the loop (Err(e) => break).
begin_attempt(f, hashes) ==
    /\ answers' = <<>>
    /\ cc_ack' = None
    /\ cc_confirm' = None
    /\ LET query == channel_creation_ack_query(chan, f) IN
       IF query.ok THEN Issue(query.val, "cc_ack_wait")
       ELSE Finish(Err(NoNewChannelError(hashes))) /\ UNCHANGED queries

find_new_channel_creation_tx(f, hashes) ==
    /\ pc = "idle"
    /\ queries = <<>>
    /\ op' = "find_new_channel_creation_tx"
    /\ from' = f
    /\ baseline' = hashes
    /\ attempts' = 1
    /\ UNCHANGED << chan, sequence, src_port, dst_port, received_tx, ack_tx, decoded_ack,
                    slept >>
    /\ begin_attempt(f, hashes)

\* get_channel_creation_ack returns; get_channel_creation_confirm is queried.
channel_creation_ack_answered(response) ==
    /\ pc = "cc_ack_wait"
    /\ answers' = Append(answers, Answered(response))
    /\ UNCHANGED << chan, op, from, sequence, baseline, src_port, dst_port, received_tx,
                    ack_tx, decoded_ack, cc_confirm, attempts, slept >>
    /\ IF ~response.ok
       THEN Finish(Err(NoNewChannelError(baseline))) /\ UNCHANGED << cc_ack, queries >>
       ELSE /\ cc_ack' = get_0(response.val)
            /\ LET query == channel_creation_confirm_query(chan, from) IN
               IF query.ok THEN Issue(query.val, "cc_confirm_wait")
               ELSE Finish(Err(NoNewChannelError(baseline))) /\ UNCHANGED queries

\* The confirm answer handled with a failed query counted as "nothing new yet".
channel_creation_confirm_answered_retrying(response) ==
    /\ pc = "cc_confirm_wait"
    /\ answers' = Append(answers, Answered(response))
    /\ UNCHANGED << chan, op, from, sequence, baseline, src_port, dst_port, received_tx,
                    ack_tx, decoded_ack, cc_ack, attempts, slept, queries >>
    /\ IF ~response.ok
       THEN pc' = "sleeping" /\ UNCHANGED << result, cc_confirm >>
       ELSE /\ cc_confirm' = get_0(response.val)
            /\ LET tx == << cc_ack, get_0(response.val) >> IN
               IF is_new_channel_creation(tx, baseline)
               THEN Finish(Ok(<< tx[1][1], tx[2][1] >>))
               ELSE pc' = "sleeping" /\ UNCHANGED result

\* The confirm answer handled with the channel ids of the new pair written
\* into the InterchainChannel.
channel_creation_confirm_answered_binding(response) ==
    /\ pc = "cc_confirm_wait"
    /\ answers' = Append(answers, Answered(response))
    /\ UNCHANGED << op, from, sequence, baseline, src_port, dst_port, received_tx,
                    ack_tx, decoded_ack, cc_ack, attempts, slept, queries >>
    /\ IF ~response.ok
       THEN Finish(Err(NoNewChannelError(baseline))) /\ UNCHANGED << chan, cc_confirm >>
       ELSE /\ cc_confirm' = get_0(response.val)
            /\ LET tx == << cc_ack, get_0(response.val) >> IN
               IF is_new_channel_creation(tx, baseline)
               THEN /\ Finish(Ok(<< tx[1][1], tx[2][1] >>))
                    /\ chan' = [chan EXCEPT !.port_a.channel = Some("channel-0"),
                                            !.port_b.channel = Some("channel-7")]
               ELSE pc' = "sleeping" /\ UNCHANGED << chan, result >>

\* get_channel_creation_confirm returns: the pair is new and is returned, or
\* the call goes to sleep.
channel_creation_confirm_answered(response) ==
    /\ pc = "cc_confirm_wait"
    /\ answers' = Append(answers, Answered(response))
    /\ UNCHANGED << chan, op, from, sequence, baseline, src_port, dst_port, received_tx,
                    ack_tx, decoded_ack, cc_ack, attempts, slept, queries >>
    /\ IF ~response.ok
       THEN Finish(Err(NoNewChannelError(baseline))) /\ UNCHANGED cc_confirm
       ELSE /\ cc_confirm' = get_0(response.val)
            /\ LET tx == << cc_ack, get_0(response.val) >> IN
               IF is_new_channel_creation(tx, baseline)
               THEN Finish(Ok(<< tx[1][1], tx[2][1] >>))
               ELSE pc' = "sleeping" /\ UNCHANGED result

\* The end of sleep with a loop of one more iteration.
sleep_over_once_more ==
    /\ pc = "sleeping"
    /\ slept' = slept + SleepSecs
    /\ UNCHANGED << chan, op, from, sequence, baseline, src_port, dst_port, received_tx,
                    ack_tx, decoded_ack >>
    /\ IF attempts < MaxAttempts + 1
       THEN attempts' = attempts + 1 /\ begin_attempt(from, baseline)
       ELSE /\ Finish(Err(NoNewChannelError(baseline)))
            /\ UNCHANGED << attempts, queries, answers, cc_ack, cc_confirm >>

\* sleep(10 s) is over: the next iteration, or the end of the loop.
sleep_over ==
    /\ pc = "sleeping"
    /\ slept' = slept + SleepSecs
    /\ UNCHANGED << chan, op, from, sequence, baseline, src_port, dst_port, received_tx,
                    ack_tx, decoded_ack >>
    /\ IF attempts < MaxAttempts
       THEN attempts' = attempts + 1 /\ begin_attempt(from, baseline)
       ELSE /\ Finish(Err(NoNewChannelError(baseline)))
            /\ UNCHANGED << attempts, queries, answers, cc_ack, cc_confirm >>

\* ------------------------------------------- get_connection, get_chain

\* The two accessors return at once, with no query.
get_connection_called ==
    /\ Enter("get_connection", "A", "1", NoBaseline)
    /\ UNCHANGED << src_port, dst_port, attempts, queries >>
    /\ Finish(Ok(get_connection(chan)))

get_chain_called(chain_id) ==
    /\ Enter("get_chain", chain_id, "1", NoBaseline)
    /\ UNCHANGED << src_port, dst_port, attempts, queries >>
    /\ Finish(get_chain(chan, chain_id))

\* ------------------------------------------------------------ the caller

\* The caller takes the result; the object is ready for the next call.
take_result ==
    /\ pc = "done"
    /\ pc' = "idle"
    /\ op' = "none"
    /\ from' = "A"
    /\ sequence' = "1"
    /\ baseline' = NoBaseline
    /\ src_port' = None
    /\ dst_port' = None
    /\ received_tx' = None
    /\ ack_tx' = None
    /\ decoded_ack' = <<>>
    /\ cc_ack' = None
    /\ cc_confirm' = None
    /\ attempts' = 0
    /\ slept' = 0
    /\ queries' = <<>>
    /\ answers' = <<>>
    /\ result' = NoResult
    /\ UNCHANGED chan

\* ================================================== daemon/ibc_tracker.rs
\* The state-diff tracker: cron_log polls the block height of one chain and
\* has the logged state (a CwIbcContractState) updated.

MaxHeight == 3

TrackedConnection == "connection-0"
TrackedPort == "wasm.host"
OtherPort == "transfer"
TrackedChainId == "juno-1"
ChannelIds == { "channel-0", "channel-1" }
PacketNumbers == { 1 }

\* A HashMap as the set of its (key, value) entries.
Keys(m) == { e[1] : e \in m }
Get(m, k) == (CHOOSE e \in m : e[1] = k)[2]

\* ------------------------------------------------- the chain that is polled

ForeignChannel == [channel_id |-> "channel-9", state |-> "Open", port_id |-> OtherPort]

NoChannels ==
    [status |-> [c \in ChannelIds |-> "absent"],
     committed |-> [c \in ChannelIds |-> {}],
     acknowledged |-> [c \in ChannelIds |-> {}]]

InitialLedgers ==
    { NoChannels, [NoChannels EXCEPT !.status["channel-0"] = "Open"],
      [NoChannels EXCEPT !.status = [c \in ChannelIds |-> "Open"]] }

\* What one block can change: a handshake moves on, a channel closes, a packet
\* is committed on an open channel, a committed packet is acknowledged.
LedgerSuccessors(l) ==
    { l }
    \cup { [l EXCEPT !.status[c] = "TryOpen"] : c \in { c \in ChannelIds : l.status[c] = "absent" } }
    \cup { [l EXCEPT !.status[c] = "Open"] : c \in { c \in ChannelIds : l.status[c] = "TryOpen" } }
    \cup { [l EXCEPT !.status[c] = "Closed"] : c \in { c \in ChannelIds : l.status[c] = "Open" } }
    \cup { [l EXCEPT !.committed[c] = @ \cup { n }] :
             c \in { c \in ChannelIds : l.status[c] = "Open" }, n \in PacketNumbers }
    \cup UNION { { [l EXCEPT !.acknowledged[c] = @ \cup { n }] : n \in l.committed[c] } :
                 c \in { c \in ChannelIds : l.status[c] = "Open" } }

BlockInfo(h) == [height |-> h, chain_id |-> TrackedChainId]

\* Node::block_info answers the latest block, or fails.
BlockInfoAnswers(h) == { Ok(BlockInfo(h)), Err(TransportError) }

connection_channels(l, connection_id) ==
    IF connection_id # TrackedConnection THEN {}
    ELSE { ForeignChannel }
         \cup { [channel_id |-> c, state |-> l.status[c], port_id |-> TrackedPort] :
                  c \in { c \in ChannelIds : l.status[c] # "absent" } }

packet_commitments(l, port_id, channel_id) ==
    IF port_id = TrackedPort /\ channel_id \in ChannelIds THEN l.committed[channel_id] ELSE {}

packet_acknowledgements(l, port_id, channel_id, sequences) ==
    IF port_id = TrackedPort /\ channel_id \in ChannelIds
    THEN l.acknowledged[channel_id] \cap sequences ELSE {}

\* ---------------------------------------------------- CwIbcContractState

Default ==
    [connection_id |-> "", port_id |-> "", channel_ids |-> {},
     committed_packets |-> {}, acknowledged_packets |-> {}]

CwIbcContractState(connection_id, port_id) ==
    [Default EXCEPT !.connection_id = connection_id, !.port_id = port_id]

\* The order in which a HashSet hands out its elements: some order, the same
\* for the set and for its clone (the clone copies the table slot by slot
\* and keeps the hasher).
HashSet_iter(set) ==
    CHOOSE q \in [1..Cardinality(set) -> set] : \A x \in set : \E i \in 1..Cardinality(set) : q[i] = x

\* new_state with the clone of channel_ids handing out the ids in the
\* opposite order.
new_state_zip_reordered(self, l) ==
    LET channel_ids ==
            { c.channel_id : c \in { c \in connection_channels(l, self.connection_id) :
                                       c.state = "Open" /\ c.port_id = self.port_id } }
        iter == HashSet_iter(channel_ids)
        into_iter == [i \in 1..Len(iter) |-> iter[Len(iter) + 1 - i]]
        committed_packets_per_channel ==
            [i \in 1..Len(iter) |-> packet_commitments(l, self.port_id, iter[i])]
        committed_packets ==
            { << into_iter[i], committed_packets_per_channel[i] >> : i \in 1..Len(iter) }
        acknowledged_packets_per_channel ==
            [i \in 1..Len(iter) |->
                packet_acknowledgements(l, self.port_id, iter[i],
                                        Get(committed_packets, iter[i]))]
        acknowledged_packets ==
            { << into_iter[i], acknowledged_packets_per_channel[i] >> : i \in 1..Len(iter) }
    IN  [connection_id |-> self.connection_id,
         port_id |-> self.port_id,
         channel_ids |-> channel_ids,
         committed_packets |-> committed_packets,
         acknowledged_packets |-> acknowledged_packets]

\* new_state: the open channels of the port over the connection; the
\* commitments queried per channel of channel_ids.iter(), zipped with
\* channel_ids.clone().into_iter(); the acknowledgements likewise.
new_state(self, l) ==
    LET channel_ids ==
            { c.channel_id : c \in { c \in connection_channels(l, self.connection_id) :
                                       c.state = "Open" /\ c.port_id = self.port_id } }
        iter == HashSet_iter(channel_ids)
        into_iter == HashSet_iter(channel_ids)
        committed_packets_per_channel ==
            [i \in 1..Len(iter) |-> packet_commitments(l, self.port_id, iter[i])]
        committed_packets ==
            { << into_iter[i], committed_packets_per_channel[i] >> : i \in 1..Len(iter) }
        acknowledged_packets_per_channel ==
            [i \in 1..Len(iter) |->
                packet_acknowledgements(l, self.port_id, iter[i],
                                        Get(committed_packets, iter[i]))]
        acknowledged_packets ==
            { << into_iter[i], acknowledged_packets_per_channel[i] >> : i \in 1..Len(iter) }
    IN  [connection_id |-> self.connection_id,
         port_id |-> self.port_id,
         channel_ids |-> channel_ids,
         committed_packets |-> committed_packets,
         acknowledged_packets |-> acknowledged_packets]

\* #[derive(Diff)]: the diff of a struct is the diff of each field.
String_diff(a, b) == IF a # b THEN Some(b) ELSE None
String_apply(s, d) == IF d # None THEN d[1] ELSE s

HashSet_diff(a, b) == [added |-> b \ a, removed |-> a \ b]
HashSet_apply(s, d) == (s \ d.removed) \cup d.added

HashMap_diff(a, b) ==
    [altered |->
        { << k, HashSet_diff(Get(a, k), Get(b, k)) >> :
            k \in { k \in Keys(a) \cap Keys(b) : Get(a, k) # Get(b, k) } }
        \cup { << k, HashSet_diff({}, Get(b, k)) >> : k \in Keys(b) \ Keys(a) },
     removed |-> Keys(a) \ Keys(b)]

HashMap_apply(m, d) ==
    LET kept == { e \in m : e[1] \notin d.removed } IN
    { e \in kept : e[1] \notin Keys(d.altered) }
    \cup { << k, HashSet_apply(IF k \in Keys(kept) THEN Get(kept, k) ELSE {},
                               Get(d.altered, k)) >> : k \in Keys(d.altered) }

diff(self, other) ==
    [connection_id |-> String_diff(self.connection_id, other.connection_id),
     port_id |-> String_diff(self.port_id, other.port_id),
     channel_ids |-> HashSet_diff(self.channel_ids, other.channel_ids),
     committed_packets |-> HashMap_diff(self.committed_packets, other.committed_packets),
     acknowledged_packets |->
        HashMap_diff(self.acknowledged_packets, other.acknowledged_packets)]

apply(self, d) ==
    [connection_id |-> String_apply(self.connection_id, d.connection_id),
     port_id |-> String_apply(self.port_id, d.port_id),
     channel_ids |-> HashSet_apply(self.channel_ids, d.channel_ids),
     committed_packets |-> HashMap_apply(self.committed_packets, d.committed_packets),
     acknowledged_packets |->
        HashMap_apply(self.acknowledged_packets, d.acknowledged_packets)]

identity == Default

\* Display: a section for each part that is not empty (an empty part here
\* stands for a section that is not written).
fmt(self) ==
    [new_channels |-> self.channel_ids,
     received_packets |-> self.committed_packets,
     acknowledged_packets |-> self.acknowledged_packets]

\* The log line with the whole new state in it.
log_state_whole(self, new_self, target) ==
    [target |-> target, update_diff |-> fmt(new_self)]

\* log::info!(target, "Update diff: {}", changes_to_print)
log_state(self, new_self, target) ==
    LET changes_to_print == apply(identity, diff(self, new_self)) IN
    [target |-> target, update_diff |-> fmt(changes_to_print)]

\* The update that logs whether or not the state changed.
update_state_always_logging(self, fresh, target) ==
    [state |-> fresh, logged |-> << log_state(self, fresh, target) >>]

\* The update that keeps the state it had.
update_state_keeping(self, fresh, target) ==
    [state |-> self,
     logged |-> IF fresh # self THEN << log_state(self, fresh, target) >> ELSE << >>]

\* update_state once new_state has answered `fresh`: the state it leaves and
\* the lines it logs.
update_state(self, fresh, target) ==
    [state |-> fresh,
     logged |-> IF fresh # self THEN << log_state(self, fresh, target) >> ELSE << >>]

\* ------------------------------------------------------ cron_log, its state

VARIABLES
    tracker_pc,        \* where cron_log is suspended; "off" when no tracker runs
    chain_height,      \* height of the latest block of the polled chain
    ledger,            \* the chain's channels and packets as of that block
    block_height,      \* the height read before the loop
    new_block_height,  \* the height read in the running iteration
    state,             \* the logged state the tracker holds
    logged,            \* the lines the last update logged
    prev_state,        \* the state the last update started from
    computed,          \* what new_state answered in the update before the last
                       \* one and in the last one (the initial state before any)
    last_observed,     \* the height polled by the last iteration that updated
                       \* the state, block_height before any did
    updates,           \* updates done so far, counted up to 2
    diffs_at_height    \* lines logged from the data of the latest block,
                       \* counted up to 2

tracker_vars == << tracker_pc, chain_height, ledger, block_height, new_block_height, state,
                   logged, prev_state, computed, last_observed, updates, diffs_at_height >>

UpTo2(n) == IF n < 2 THEN n ELSE 2

TrackerOff ==
    /\ tracker_pc = "off"
    /\ chain_height = 1
    /\ ledger = NoChannels
    /\ block_height = 0
    /\ new_block_height = 0
    /\ state = Default
    /\ logged = << >>
    /\ prev_state = Default
    /\ computed = << Default, Default >>
    /\ last_observed = 0
    /\ updates = 0
    /\ diffs_at_height = 0

\* cron_log(config) is called: Node::block_info is in flight (line 45).
TrackerInit ==
    /\ tracker_pc = "start_wait"
    /\ chain_height = 1
    /\ ledger \in InitialLedgers
    /\ block_height = 0
    /\ new_block_height = 0
    /\ state = CwIbcContractState(TrackedConnection, TrackedPort)
    /\ logged = << >>
    /\ prev_state = state
    /\ computed = << state, state >>
    /\ last_observed = 0
    /\ updates = 0
    /\ diffs_at_height = 0

\* The chain produces a block; the on-chain data changes with it only.
new_block ==
    /\ chain_height < MaxHeight
    /\ chain_height' = chain_height + 1
    /\ ledger' \in LedgerSuccessors(ledger)
    /\ diffs_at_height' = 0
    /\ UNCHANGED << tracker_pc, block_height, new_block_height, state, logged, prev_state, computed,
                    last_observed, updates >>

\* The first block_info answers (lines 45-51): unwrap() panics on an error,
\* else the loop is entered and block_info is queried again.
cron_log_started(answer) ==
    /\ tracker_pc = "start_wait"
    /\ IF answer.ok
       THEN /\ block_height' = answer.val.height
            /\ last_observed' = answer.val.height
            /\ tracker_pc' = "poll_wait"
       ELSE /\ tracker_pc' = "panicked"
            /\ UNCHANGED << block_height, last_observed >>
    /\ UNCHANGED << chain_height, ledger, new_block_height, state, logged, prev_state, computed,
                    updates, diffs_at_height >>

\* The poll that also updates on the height read at start.
poll_answered_on_same_height(answer) ==
    /\ tracker_pc = "poll_wait"
    /\ IF answer.ok
       THEN /\ new_block_height' = answer.val.height
            /\ tracker_pc' = IF answer.val.height >= block_height
                             THEN "new_state_wait" ELSE "sleeping"
       ELSE /\ tracker_pc' = "panicked"
            /\ UNCHANGED new_block_height
    /\ UNCHANGED << chain_height, ledger, block_height, state, logged, prev_state, computed,
                    last_observed, updates, diffs_at_height >>

\* block_info of line 51 answers: the state is updated when the height is
\* above block_height, else the iteration goes to sleep.
poll_answered(answer) ==
    /\ tracker_pc = "poll_wait"
    /\ IF answer.ok
       THEN /\ new_block_height' = answer.val.height
            /\ tracker_pc' = IF answer.val.height > block_height
                             THEN "new_state_wait" ELSE "sleeping"
       ELSE /\ tracker_pc' = "panicked"
            /\ UNCHANGED new_block_height
    /\ UNCHANGED << chain_height, ledger, block_height, state, logged, prev_state, computed,
                    last_observed, updates, diffs_at_height >>

\* new_state answers inside update_state (lines 85-90, 121-191): a failed
\* query panics in unwrap(), else the state is compared, logged and replaced.
state_refreshed(queries_ok) ==
    /\ tracker_pc = "new_state_wait"
    /\ IF queries_ok
       THEN LET updated == update_state(state, new_state(state, ledger), TrackedChainId) IN
            /\ state' = updated.state
            /\ logged' = updated.logged
            /\ prev_state' = state
            /\ computed' = << computed[2], new_state(state, ledger) >>
            /\ last_observed' = new_block_height
            /\ updates' = UpTo2(updates + 1)
            /\ diffs_at_height' = UpTo2(diffs_at_height + Len(updated.logged))
            /\ tracker_pc' = "sleeping"
       ELSE /\ tracker_pc' = "panicked"
            /\ UNCHANGED << state, logged, prev_state, computed, last_observed, updates,
                            diffs_at_height >>
    /\ UNCHANGED << chain_height, ledger, block_height, new_block_height >>

\* sleep(config.log_interval) is over: the next iteration queries block_info.
tracker_sleep_over ==
    /\ tracker_pc = "sleeping"
    /\ tracker_pc' = "poll_wait"
    /\ UNCHANGED << chain_height, ledger, block_height, new_block_height, state, logged,
                    prev_state, computed, last_observed, updates, diffs_at_height >>

\* The caller drops the task that runs cron_log, at one of its .await points.
cancel ==
    /\ tracker_pc \in { "start_wait", "poll_wait", "new_state_wait", "sleeping" }
    /\ tracker_pc' = "cancelled"
    /\ UNCHANGED << chain_height, ledger, block_height, new_block_height, state, logged,
                    prev_state, computed, last_observed, updates, diffs_at_height >>

\* ------------------------------------------------------------ state store

ContractIds == { "counter", "cw20" }

AddrNotInStore(contract_id) == [variant |-> "AddrNotInStore", msg |-> << contract_id >>]
CodeIdNotInStore(contract_id) == [variant |-> "CodeIdNotInStore", msg |-> << contract_id >>]

\* The store S behind the handles: a map of addresses and a map of code ids,
\* both by contract id.
insert(m, k, v) == { e \in m : e[1] # k } \cup { << k, v >> }

S_get_address(self, contract_id) ==
    IF contract_id \in Keys(self.addresses)
    THEN Ok(Get(self.addresses, contract_id))
    ELSE Err(AddrNotInStore(contract_id))

S_set_address(self, contract_id, address) ==
    [self EXCEPT !.addresses = insert(@, contract_id, address)]

S_get_code_id(self, contract_id) ==
    IF contract_id \in Keys(self.code_ids)
    THEN Ok(Get(self.code_ids, contract_id))
    ELSE Err(CodeIdNotInStore(contract_id))

S_set_code_id(self, contract_id, code_id) ==
    [self EXCEPT !.code_ids = insert(@, contract_id, code_id)]

\* The handles and the store each points to: chain.state() of a simulated
\* chain is an Rc<RefCell<S>> and its clone shares the store "state"; the
\* other two are an Arc<Mutex<S>> and its clone, sharing the store "shared".
Handles == { "chain.state()", "chain.state().clone()", "shared", "shared.clone()" }
Target(handle) ==
    IF handle \in { "chain.state()", "chain.state().clone()" } THEN "state" ELSE "shared"

\* (**self).borrow()
Rc_RefCell_borrow(heap, self) == heap[Target(self)]

\* A borrow_mut() that hands out a copy of the store.
Rc_RefCell_borrow_mut_of_copy(heap, self, updated) == heap

\* (**self).borrow_mut(), with what the method of S leaves in the store.
Rc_RefCell_borrow_mut(heap, self, updated) == [heap EXCEPT ![Target(self)] = updated]

\* self.lock().unwrap(), to read and to write.
Arc_Mutex_lock(heap, self) == heap[Target(self)]
Arc_Mutex_lock_mut(heap, self, updated) == [heap EXCEPT ![Target(self)] = updated]

\* The methods of StateInterface on a handle, by the type of the handle.
get_address(heap, self, contract_id) ==
    IF Target(self) = "state"
    THEN S_get_address(Rc_RefCell_borrow(heap, self), contract_id)
    ELSE S_get_address(Arc_Mutex_lock(heap, self), contract_id)

set_address(heap, self, contract_id, address) ==
    IF Target(self) = "state"
    THEN Rc_RefCell_borrow_mut(heap, self,
             S_set_address(Rc_RefCell_borrow(heap, self), contract_id, address))
    ELSE Arc_Mutex_lock_mut(heap, self,
             S_set_address(Arc_Mutex_lock(heap, self), contract_id, address))

get_code_id(heap, self, contract_id) ==
    IF Target(self) = "state"
    THEN S_get_code_id(Rc_RefCell_borrow(heap, self), contract_id)
    ELSE S_get_code_id(Arc_Mutex_lock(heap, self), contract_id)

set_code_id(heap, self, contract_id, code_id) ==
    IF Target(self) = "state"
    THEN Rc_RefCell_borrow_mut(heap, self,
             S_set_code_id(Rc_RefCell_borrow(heap, self), contract_id, code_id))
    ELSE Arc_Mutex_lock_mut(heap, self,
             S_set_code_id(Arc_Mutex_lock(heap, self), contract_id, code_id))

get_all_addresses(heap, self) ==
    IF Target(self) = "state" THEN Ok(Rc_RefCell_borrow(heap, self).addresses)
    ELSE Ok(Arc_Mutex_lock(heap, self).addresses)

get_all_code_ids(heap, self) ==
    IF Target(self) = "state" THEN Ok(Rc_RefCell_borrow(heap, self).code_ids)
    ELSE Ok(Arc_Mutex_lock(heap, self).code_ids)

\* ---------------------------------------------------------------- Contract

\* Contract::new: the chain is the environment whose state() is the handle
\* "chain.state()".
Contract(id) == [id |-> id, default_code_id |-> None, default_address |-> None]

\* address() with the default address looked at first.
Contract_address_default_first(self, heap) ==
    IF self.default_address # None THEN Ok(self.default_address[1])
    ELSE get_address(heap, "chain.state()", self.id)

\* state_address.or(default_address.ok_or(AddrNotInStore(id)))
Contract_address(self, heap) ==
    LET state_address == get_address(heap, "chain.state()", self.id) IN
    IF state_address.ok THEN state_address
    ELSE IF self.default_address # None THEN Ok(self.default_address[1])
    ELSE Err(AddrNotInStore(self.id))

\* state_code_id.or(default_code_id.ok_or(CodeIdNotInStore(id)))
Contract_code_id(self, heap) ==
    LET state_code_id == get_code_id(heap, "chain.state()", self.id) IN
    IF state_code_id.ok THEN state_code_id
    ELSE IF self.default_code_id # None THEN Ok(self.default_code_id[1])
    ELSE Err(CodeIdNotInStore(self.id))

\* ------------------------------------------------------- upload_if_needed

\* The node's answer to code_id_hash: code id i of the chain has checksum
\* stored_codes[i].
code_id_hash(stored_codes, code_id) ==
    IF code_id \in 1..Len(stored_codes) THEN Ok(stored_codes[code_id])
    ELSE Err(AnyError(<< "code id not found" >>))

\* latest_is_uploaded, given the answer of the node to code_id_hash and the
\* checksum of the local artifact, None when the file is not there.
latest_is_uploaded(self, heap, on_chain_hash, artifact) ==
    LET latest_uploaded_code_id == Contract_code_id(self, heap) IN
    IF ~latest_uploaded_code_id.ok THEN Ok(FALSE)
    ELSE IF ~on_chain_hash.ok THEN Err(on_chain_hash.err)
    ELSE LET local_hash == IF artifact # None THEN Ok(artifact[1])
                           ELSE Err(AnyError(<< "wasm file not found" >>)) IN
         IF ~local_hash.ok THEN Err(local_hash.err)
         ELSE Ok(local_hash.val = on_chain_hash.val)

\* upload that does not register the code id it got.
upload_unregistered(self, heap, stored_codes, artifact, answer) ==
    IF answer = "failed" \/ artifact = None
    THEN [value |-> Err(AnyError(<< "upload failed" >>)), heap |-> heap, codes |-> stored_codes]
    ELSE [value |-> Ok(Some(Len(stored_codes) + 1)), heap |-> heap,
          codes |-> Append(stored_codes, artifact[1])]

\* Contract::upload: chain.upload(source)?, uploaded_code_id()?, set_code_id.
\* chain.upload answers that the transaction failed, or stores the code
\* under the next code id, which its response carries in an event or not.
\* The value is the response, here the code id it carries.
upload(self, heap, stored_codes, artifact, answer) ==
    IF answer = "failed" \/ artifact = None
    THEN [value |-> Err(AnyError(<< "upload failed" >>)), heap |-> heap, codes |-> stored_codes]
    ELSE LET stored == Append(stored_codes, artifact[1]) IN
         IF answer = "stored, no code_id event"
         THEN [value |-> Err(AnyError(<< "no code_id in the response" >>)),
               heap |-> heap, codes |-> stored]
         ELSE [value |-> Ok(Some(Len(stored))),
               heap |-> set_code_id(heap, "chain.state()", self.id, Len(stored)),
               codes |-> stored]

\* upload_if_needed: Ok(None) when the latest is uploaded, the error of
\* latest_is_uploaded, or what upload returns.
upload_if_needed(self, heap, stored_codes, artifact, on_chain_hash, answer) ==
    LET latest == latest_is_uploaded(self, heap, on_chain_hash, artifact) IN
    IF ~latest.ok
    THEN [value |-> Err(latest.err), heap |-> heap, codes |-> stored_codes,
          upload_called |-> FALSE]
    ELSE IF latest.val
    THEN [value |-> Ok(None), heap |-> heap, codes |-> stored_codes, upload_called |-> FALSE]
    ELSE LET up == upload(self, heap, stored_codes, artifact, answer) IN
         [value |-> up.value, heap |-> up.heap, codes |-> up.codes, upload_called |-> TRUE]

\* ------------------------------------------- the store and the contract, state

VARIABLES
    cells,        \* the stores in memory
    contract,     \* the Contract of the caller
    codes,        \* the codes stored on the chain
    wasm,         \* the checksum of the local artifact, None when not built
    call,         \* the last call of upload_if_needed and what it saw
    fresh,        \* the last operation was an upload_if_needed that returned Ok
    written,      \* per store and contract id, the last address and code id set
    sets_done     \* per store, the number of set_address and set_code_id so far

deploy_vars == << cells, contract, codes, wasm, call, fresh, written, sets_done >>

\* Empty stores, a new Contract, a chain without codes, no artifact built.
DeployOff ==
    /\ cells = [s \in { "state", "shared" } |-> [addresses |-> {}, code_ids |-> {}]]
    /\ contract = Contract("counter")
    /\ codes = << >>
    /\ wasm = None
    /\ call = [made |-> FALSE, after_success |-> FALSE, registered |-> FALSE,
               on_chain |-> None, local |-> None, upload_called |-> FALSE, stored |-> 0,
               returned |-> "nothing"]
    /\ fresh = FALSE
    /\ written = [s \in { "state", "shared" } |->
                     [addresses |-> [id \in ContractIds |-> None],
                      code_ids |-> [id \in ContractIds |-> None]]]
    /\ sets_done = [s \in { "state", "shared" } |-> [addresses |-> 0, code_ids |-> 0]]

\* handle.set_address(contract_id, address)
state_set_address(handle, contract_id) ==
    \E address \in { "addr1", "addr2" } :
        /\ cells' = set_address(cells, handle, contract_id, address)
        /\ written' = [written EXCEPT ![Target(handle)].addresses[contract_id] = Some(address)]
        /\ sets_done' = [sets_done EXCEPT ![Target(handle)].addresses = UpTo2(@ + 1)]
        /\ fresh' = FALSE
        /\ UNCHANGED << contract, codes, wasm, call >>

\* handle.set_code_id(contract_id, code_id)
state_set_code_id(handle, contract_id) ==
    \E code_id \in { 1, 2 } :
        /\ cells' = set_code_id(cells, handle, contract_id, code_id)
        /\ written' = [written EXCEPT ![Target(handle)].code_ids[contract_id] = Some(code_id)]
        /\ sets_done' = [sets_done EXCEPT ![Target(handle)].code_ids = UpTo2(@ + 1)]
        /\ fresh' = FALSE
        /\ UNCHANGED << contract, codes, wasm, call >>

\* contract.set_default_address(address)
contract_set_default_address ==
    \E address \in { "addr1", "addr2" } :
        /\ contract' = [contract EXCEPT !.default_address = Some(address)]
        /\ fresh' = FALSE
        /\ UNCHANGED << cells, codes, wasm, call, written, sets_done >>

\* contract.set_default_code_id(code_id)
contract_set_default_code_id ==
    \E code_id \in { 1, 2 } :
        /\ contract' = [contract EXCEPT !.default_code_id = Some(code_id)]
        /\ fresh' = FALSE
        /\ UNCHANGED << cells, codes, wasm, call, written, sets_done >>

\* The artifact is built again, with one checksum or another, or removed.
wasm_changed ==
    \E build \in { None, Some("v1"), Some("v2") } :
        /\ wasm # build
        /\ wasm' = build
        /\ fresh' = FALSE
        /\ UNCHANGED << cells, contract, codes, call, written, sets_done >>

\* contract.upload_if_needed(): the node answers code_id_hash or the query
\* fails; chain.upload answers.
upload_if_needed_called ==
    \E query_ok \in BOOLEAN, answer \in { "failed", "stored", "stored, no code_id event" } :
        LET code_id == Contract_code_id(contract, cells)
            on_chain_hash ==
                IF code_id.ok /\ query_ok THEN code_id_hash(codes, code_id.val)
                ELSE Err(TransportError)
            r == upload_if_needed(contract, cells, codes, wasm, on_chain_hash, answer)
            registers == r.upload_called /\ r.value.ok
        IN
        /\ Len(r.codes) <= MaxUploads
        /\ cells' = r.heap
        /\ codes' = r.codes
        /\ call' = [made |-> TRUE,
                    after_success |-> fresh,
                    registered |-> code_id.ok,
                    on_chain |-> IF code_id.ok /\ on_chain_hash.ok
                                 THEN Some(on_chain_hash.val) ELSE None,
                    local |-> wasm,
                    upload_called |-> r.upload_called,
                    stored |-> Len(r.codes) - Len(codes),
                    returned |-> IF ~r.value.ok THEN "Err"
                                 ELSE IF r.value.val = None THEN "Ok(None)" ELSE "Ok(Some)"]
        /\ fresh' = r.value.ok
        /\ written' = IF registers
                      THEN [written EXCEPT !["state"].code_ids[contract.id] = Some(Len(r.codes))]
                      ELSE written
        /\ sets_done' = IF registers
                        THEN [sets_done EXCEPT !["state"].code_ids = UpTo2(@ + 1)]
                        ELSE sets_done
        /\ UNCHANGED << contract, wasm >>


\* ------------------------------------------- the simulated interchain env

MockChains == { "juno-1", "stargaze-1" }

\* The packet is delivered whatever its timeout.
relay_packet_without_timeout(packet, dst_height, answer) ==
    { [variant |-> "Success",
       receive_tx |-> Some(<< packet.dst, "recv_packet", packet.sequence >>),
       ack_tx |-> Some(<< packet.src, "acknowledge_packet", packet.sequence >>),
       timeout_tx |-> None] }

\* The relay of one packet by wait_ibc, with the outcomes it records: once
\* the destination is at the timeout height, a timeout transaction on the
\* source chain and nothing else; before that the receive on the destination
\* and the acknowledgment on the source, or the error the destination
\* reported.
relay_packet(packet, dst_height, answer) ==
    IF dst_height >= packet.timeout_height
    THEN { [variant |-> "Timeout", receive_tx |-> None, ack_tx |-> None,
            timeout_tx |-> Some(<< packet.src, "timeout_packet", packet.sequence >>)] }
    ELSE IF answer = "acknowledged"
    THEN { [variant |-> "Success",
            receive_tx |-> Some(<< packet.dst, "recv_packet", packet.sequence >>),
            ack_tx |-> Some(<< packet.src, "acknowledge_packet", packet.sequence >>),
            timeout_tx |-> None] }
    ELSE { [variant |-> "Error",
            receive_tx |-> Some(<< packet.dst, "recv_packet", packet.sequence >>),
            ack_tx |-> None, timeout_tx |-> None] }

VARIABLES
    mock_height,   \* the block height of each simulated chain
    in_flight,     \* the packet sent and not yet followed, if any
    followed       \* the packets wait_ibc followed, in order, with their outcomes

mock_vars == << mock_height, in_flight, followed >>

\* Two simulated chains with a channel between them, no packet sent.
MockOff ==
    /\ mock_height = [c \in MockChains |-> 1]
    /\ in_flight = None
    /\ followed = << >>

\* chain.wait_blocks(1)
mock_next_block(chain_id) ==
    /\ mock_height[chain_id] < MaxMockHeight
    /\ mock_height' = [mock_height EXCEPT ![chain_id] = @ + 1]
    /\ UNCHANGED << in_flight, followed >>

\* A transfer is sent from src with IbcTimeout::with_block(height).
mock_send_packet(src, height) ==
    /\ in_flight = None
    /\ Len(followed) < MaxPackets
    /\ \E dst \in MockChains \ { src } :
          in_flight' = Some([sequence |-> Len(followed) + 1,
                             src |-> src,
                             dst |-> dst,
                             timeout_height |-> height,
                             dst_height_at_send |-> mock_height[dst]])
    /\ UNCHANGED << mock_height, followed >>

\* interchain.wait_ibc(src, tx_resp): the packet of the transaction is
\* relayed, the destination acknowledging it or failing on it when it gets
\* it, and its outcome recorded.
wait_ibc_called ==
    /\ in_flight # None
    /\ \E answer \in { "acknowledged", "failed" } :
          followed' = Append(followed,
                             [packet |-> in_flight[1],
                              outcomes |-> relay_packet(in_flight[1],
                                                        mock_height[in_flight[1].dst],
                                                        answer)])
    /\ in_flight' = None
    /\ UNCHANGED mock_height

\* ------------------------------------------- invocations run concurrently

\* An invocation as the future it is: the arguments and the locals it owns,
\* the query it awaits, what it returned. The future of follow_packet up to
\* its first .await (lines 298-303).
follow_packet_future(self, f, s) ==
    LET ports == get_ordered_ports_from(self, f)
        local == [op |-> "follow_packet", pc |-> "done", from |-> f, sequence |-> s,
                  baseline |-> NoBaseline, src_port |-> None, dst_port |-> None,
                  awaited |-> None, received_tx |-> None, cc_ack |-> None,
                  attempts |-> 0, slept |-> 0, result |-> NoResult]
    IN  IF ~ports.ok THEN [local EXCEPT !.result = Returned(Err(ports.err))]
        ELSE LET query == packet_receive_query(self, f, s) IN
             IF ~query.ok THEN [local EXCEPT !.result = Returned(Err(query.err))]
             ELSE [local EXCEPT !.pc = "recv_wait",
                                !.src_port = Some(ports.val[1]),
                                !.dst_port = Some(ports.val[2]),
                                !.awaited = Some(query.val)]

\* The future of find_new_channel_creation_tx up to its first .await.
find_new_channel_creation_tx_future(self, f, hashes) ==
    LET query == channel_creation_ack_query(self, f)
        local == [op |-> "find_new_channel_creation_tx", pc |-> "done", from |-> f,
                  sequence |-> "1", baseline |-> hashes, src_port |-> None,
                  dst_port |-> None, awaited |-> None, received_tx |-> None,
                  cc_ack |-> None, attempts |-> 1, slept |-> 0, result |-> NoResult]
    IN  IF ~query.ok
        THEN [local EXCEPT !.result = Returned(Err(NoNewChannelError(hashes)))]
        ELSE [local EXCEPT !.pc = "cc_ack_wait", !.awaited = Some(query.val)]

\* The future is resumed with the answer to the query it awaited (with the
\* end of its sleep) and runs to its next .await or to its return.
poll(self, future, response) ==
    LET return(value) == [future EXCEPT !.pc = "done", !.awaited = None,
                                        !.result = Returned(value)]
    IN
    IF future.pc = "recv_wait"
    THEN LET found == get_tx_by_events_and_assert_one(response) IN
         IF ~found.ok THEN return(Err(found.err))
         ELSE LET step == received_step(found.val, future.dst_port[1].chain_id) IN
              IF step.kind = "return" THEN return(step.value)
              ELSE IF step.kind = "panic"
              THEN [future EXCEPT !.pc = "done", !.awaited = None, !.result = Panicked]
              ELSE LET query == packet_ack_receive_query(self, future.src_port[1].chain_id,
                                                         future.sequence) IN
                   IF ~query.ok THEN return(Err(query.err))
                   ELSE [future EXCEPT !.pc = "ack_wait",
                                       !.received_tx = Some(found.val),
                                       !.awaited = Some(query.val)]
    ELSE IF future.pc = "ack_wait"
    THEN LET found == get_tx_by_events_and_assert_one(response) IN
         IF ~found.ok THEN return(Err(found.err))
         ELSE return(acknowledged_step(found.val, future.src_port[1], future.dst_port[1],
                                       future.received_tx[1]))
    ELSE IF future.pc = "cc_ack_wait"
    THEN IF ~response.ok THEN return(Err(NoNewChannelError(future.baseline)))
         ELSE LET query == channel_creation_confirm_query(self, future.from) IN
              IF ~query.ok THEN return(Err(NoNewChannelError(future.baseline)))
              ELSE [future EXCEPT !.pc = "cc_confirm_wait",
                                  !.cc_ack = get_0(response.val),
                                  !.awaited = Some(query.val)]
    ELSE IF future.pc = "cc_confirm_wait"
    THEN IF ~response.ok THEN return(Err(NoNewChannelError(future.baseline)))
         ELSE LET tx == << future.cc_ack, get_0(response.val) >> IN
              IF is_new_channel_creation(tx, future.baseline)
              THEN return(Ok(<< tx[1][1], tx[2][1] >>))
              ELSE [future EXCEPT !.pc = "sleeping", !.awaited = None]
    ELSE IF future.pc = "sleeping"
    THEN LET query == channel_creation_ack_query(self, future.from) IN
         IF future.attempts < MaxAttempts /\ query.ok
         THEN [future EXCEPT !.pc = "cc_ack_wait", !.attempts = @ + 1,
                             !.slept = @ + SleepSecs, !.cc_ack = None,
                             !.awaited = Some(query.val)]
         ELSE [return(Err(NoNewChannelError(future.baseline)))
                  EXCEPT !.slept = @ + SleepSecs]
    ELSE future

\* The data of the two chains, which no step changes: whether the packet of
\* sequence 1 was received (that of sequence 2 was), whether a handshake was
\* acknowledged; the node answers a query from it, or fails on the receive
\* query of sequence 1.
Worlds == { [recv |-> r, hs_ack |-> a] : r \in { "none", "one", "failed" }, a \in { "none", "one" } }

find_tx_by_events(world, query) ==
    LET event_type == query.events[1][1]
        hash == IF Len(query.events) = 3 /\ query.events[3][5] = "2" THEN "H2" ELSE "H1"
    IN
    IF event_type = "recv_packet"
    THEN IF hash = "H1" /\ world.recv = "failed" THEN Err(TransportError)
         ELSE IF hash = "H1" /\ world.recv = "none" THEN Ok(<< >>)
         ELSE Ok(<< CosmTxResponse(hash, 0, "",
                       << RecvPacket,
                          Event("write_acknowledgement",
                                FullAttributes(ResultEnvelope("aGk="))) >>) >>)
    ELSE IF event_type = "channel_open_ack" /\ world.hs_ack = "none" THEN Ok(<< >>)
    ELSE Ok(<< CosmTxResponse(hash, 0, "", << Event(event_type, << >>) >>) >>)

\* The future run alone, to its return.
RECURSIVE block_on(_, _, _)
block_on(self, world, future) ==
    IF future.pc = "done" THEN future
    ELSE block_on(self, world,
                  poll(self, future,
                       IF future.awaited = None THEN Ok(<< >>)
                       ELSE find_tx_by_events(world, future.awaited[1])))

VARIABLES
    tasks,     \* the invocations the caller runs concurrently on the channel pair
    node       \* the data of the chains they query

co_vars == << tasks, node >>

Pending ==
    [op |-> "none", pc |-> "idle", from |-> "A", sequence |-> "1", baseline |-> NoBaseline,
     src_port |-> None, dst_port |-> None, awaited |-> None, received_tx |-> None,
     cc_ack |-> None, attempts |-> 0, slept |-> 0, result |-> NoResult]

\* No invocation is spawned.
NoTasks ==
    /\ tasks = [t \in 1..3 |-> Pending]
    /\ node = [recv |-> "one", hs_ack |-> "one"]

\* The caller spawns follow_packet(f, s) as task t.
spawn_follow_packet(t, f, s) ==
    /\ tasks[t].pc = "idle"
    /\ tasks' = [tasks EXCEPT ![t] = follow_packet_future(chan, f, s)]
    /\ UNCHANGED node

\* The caller spawns find_new_channel_creation_tx(f, (None, None)) as task t.
spawn_find_new_channel_creation_tx(t, f) ==
    /\ tasks[t].pc = "idle"
    /\ tasks' = [tasks EXCEPT ![t] = find_new_channel_creation_tx_future(chan, f, NoBaseline)]
    /\ UNCHANGED node

\* The executor with the received transaction kept in one place for all the
\* invocations.
task_polled_sharing(t) ==
    /\ tasks[t].pc \notin { "idle", "done" }
    /\ LET polled == poll(chan, tasks[t],
                          IF tasks[t].awaited = None THEN Ok(<< >>)
                          ELSE find_tx_by_events(node, tasks[t].awaited[1]))
       IN tasks' = [u \in 1..3 |->
                      IF u = t THEN polled
                      ELSE IF tasks[u].pc = "ack_wait" /\ polled.pc = "ack_wait"
                      THEN [tasks[u] EXCEPT !.received_tx = polled.received_tx]
                      ELSE tasks[u]]
    /\ UNCHANGED node

\* The executor resumes task t: the query it awaited is answered, or its
\* sleep is over.
task_polled(t) ==
    /\ tasks[t].pc \notin { "idle", "done" }
    /\ tasks' = [tasks EXCEPT ![t] = poll(chan, tasks[t],
                                          IF tasks[t].awaited = None THEN Ok(<< >>)
                                          ELSE find_tx_by_events(node, tasks[t].awaited[1]))]
    /\ UNCHANGED node

\* ------------------------------------------- the address-book import

\* address_book::get_account_id and insert_account_id on the entries of one
\* chain: the address under the alias if any; the alias set to the address.
get_account_id(book, alias) ==
    IF alias \in Keys(book) THEN Some(Get(book, alias)) ELSE None

insert_account_id(book, alias, address) ==
    { e \in book : e[1] # alias } \cup { << alias, address >> }

\* The iteration with Skip All importing the duplicate it was answered on.
import_contract_skip_all_inserting(book, global, strategy, contract_id, address, typed, answer, renamed) ==
    LET typed_alias == IF strategy = "Keep" THEN Ok(contract_id) ELSE typed
        outcome(kind, new_book, new_global, alias, duplicate, prompted, resolve) ==
            [kind |-> kind, book |-> new_book, global |-> new_global,
             contract_id |-> contract_id, address |-> address, alias |-> alias,
             duplicate |-> duplicate, prompted |-> prompted, resolve |-> resolve,
             book_before |-> book, global_before |-> global]
    IN
    IF ~typed_alias.ok THEN outcome("Err", book, global, "", FALSE, FALSE, "")
    ELSE
    LET alias == typed_alias.val
        maybe_address == get_account_id(book, alias)
    IN
    IF maybe_address = None
    THEN outcome("next", insert_account_id(book, alias, address), global, alias,
                 FALSE, FALSE, "")
    ELSE IF global # None /\ global[1] \notin { "SkipAll", "OverrideAll" }
    THEN outcome("unreachable", book, global, alias, TRUE, FALSE, "")
    ELSE
    LET duplicate_resolve ==
            IF global # None
            THEN Ok(IF global[1] = "SkipAll" THEN "Skip" ELSE "Override")
            ELSE answer
        prompted == global = None
    IN
    IF ~duplicate_resolve.ok THEN outcome("Err", book, global, alias, TRUE, prompted, "")
    ELSE IF duplicate_resolve.val = "Rename"
    THEN IF ~renamed.ok
         THEN outcome("Err", book, global, alias, TRUE, prompted, "Rename")
         ELSE outcome("next", insert_account_id(book, renamed.val, address), global,
                      renamed.val, TRUE, prompted, "Rename")
    ELSE IF duplicate_resolve.val = "Skip"
    THEN outcome("next", book, global, alias, TRUE, prompted, "Skip")
    ELSE IF duplicate_resolve.val = "SkipAll"
    THEN outcome("next", insert_account_id(book, alias, address), Some("SkipAll"), alias, TRUE, prompted, "SkipAll")
    ELSE IF duplicate_resolve.val = "Override"
    THEN outcome("next", insert_account_id(book, alias, address), global, alias,
                 TRUE, prompted, "Override")
    ELSE outcome("next", insert_account_id(book, alias, address), Some("OverrideAll"),
                 alias, TRUE, prompted, "OverrideAll")

\* The iteration with the Override answer memoized as well.
import_contract_memoizing_override(book, global, strategy, contract_id, address, typed, answer, renamed) ==
    LET typed_alias == IF strategy = "Keep" THEN Ok(contract_id) ELSE typed
        outcome(kind, new_book, new_global, alias, duplicate, prompted, resolve) ==
            [kind |-> kind, book |-> new_book, global |-> new_global,
             contract_id |-> contract_id, address |-> address, alias |-> alias,
             duplicate |-> duplicate, prompted |-> prompted, resolve |-> resolve,
             book_before |-> book, global_before |-> global]
    IN
    IF ~typed_alias.ok THEN outcome("Err", book, global, "", FALSE, FALSE, "")
    ELSE
    LET alias == typed_alias.val
        maybe_address == get_account_id(book, alias)
    IN
    IF maybe_address = None
    THEN outcome("next", insert_account_id(book, alias, address), global, alias,
                 FALSE, FALSE, "")
    ELSE IF global # None /\ global[1] \notin { "SkipAll", "OverrideAll" }
    THEN outcome("unreachable", book, global, alias, TRUE, FALSE, "")
    ELSE
    LET duplicate_resolve ==
            IF global # None
            THEN Ok(IF global[1] = "SkipAll" THEN "Skip" ELSE "Override")
            ELSE answer
        prompted == global = None
    IN
    IF ~duplicate_resolve.ok THEN outcome("Err", book, global, alias, TRUE, prompted, "")
    ELSE IF duplicate_resolve.val = "Rename"
    THEN IF ~renamed.ok
         THEN outcome("Err", book, global, alias, TRUE, prompted, "Rename")
         ELSE outcome("next", insert_account_id(book, renamed.val, address), global,
                      renamed.val, TRUE, prompted, "Rename")
    ELSE IF duplicate_resolve.val = "Skip"
    THEN outcome("next", book, global, alias, TRUE, prompted, "Skip")
    ELSE IF duplicate_resolve.val = "SkipAll"
    THEN outcome("next", book, Some("SkipAll"), alias, TRUE, prompted, "SkipAll")
    ELSE IF duplicate_resolve.val = "Override"
    THEN outcome("next", insert_account_id(book, alias, address), Some("Override"), alias,
                 TRUE, prompted, "Override")
    ELSE outcome("next", insert_account_id(book, alias, address), Some("OverrideAll"),
                 alias, TRUE, prompted, "OverrideAll")

\* One iteration of the loop of from_previous_context (lines 143-189) on the
\* contract (contract_id, address), with what the user does at the prompts
\* that come up: the alias typed under the Rename strategy, the answer to
\* the duplicate, the free alias the rename ends with; each is a value or the
\* error of a prompt that fails, which ends the import.
import_contract(book, global, strategy, contract_id, address, typed, answer, renamed) ==
    LET typed_alias == IF strategy = "Keep" THEN Ok(contract_id) ELSE typed
        outcome(kind, new_book, new_global, alias, duplicate, prompted, resolve) ==
            [kind |-> kind, book |-> new_book, global |-> new_global,
             contract_id |-> contract_id, address |-> address, alias |-> alias,
             duplicate |-> duplicate, prompted |-> prompted, resolve |-> resolve,
             book_before |-> book, global_before |-> global]
    IN
    IF ~typed_alias.ok THEN outcome("Err", book, global, "", FALSE, FALSE, "")
    ELSE
    LET alias == typed_alias.val
        maybe_address == get_account_id(book, alias)
    IN
    IF maybe_address = None
    THEN outcome("next", insert_account_id(book, alias, address), global, alias,
                 FALSE, FALSE, "")
    ELSE IF global # None /\ global[1] \notin { "SkipAll", "OverrideAll" }
    THEN outcome("unreachable", book, global, alias, TRUE, FALSE, "")
    ELSE
    LET duplicate_resolve ==
            IF global # None
            THEN Ok(IF global[1] = "SkipAll" THEN "Skip" ELSE "Override")
            ELSE answer
        prompted == global = None
    IN
    IF ~duplicate_resolve.ok THEN outcome("Err", book, global, alias, TRUE, prompted, "")
    ELSE IF duplicate_resolve.val = "Rename"
    THEN IF ~renamed.ok
         THEN outcome("Err", book, global, alias, TRUE, prompted, "Rename")
         ELSE outcome("next", insert_account_id(book, renamed.val, address), global,
                      renamed.val, TRUE, prompted, "Rename")
    ELSE IF duplicate_resolve.val = "Skip"
    THEN outcome("next", book, global, alias, TRUE, prompted, "Skip")
    ELSE IF duplicate_resolve.val = "SkipAll"
    THEN outcome("next", book, Some("SkipAll"), alias, TRUE, prompted, "SkipAll")
    ELSE IF duplicate_resolve.val = "Override"
    THEN outcome("next", insert_account_id(book, alias, address), global, alias,
                 TRUE, prompted, "Override")
    ELSE outcome("next", insert_account_id(book, alias, address), Some("OverrideAll"),
                 alias, TRUE, prompted, "OverrideAll")

VARIABLES
    address_book,               \* the entries of the chain: (alias, address)
    contracts,                  \* the contracts of the deployment not yet imported
    name_strategy,              \* scope.name_strategy
    duplicate_resolve_global,   \* the memoized resolution
    import_pc,                  \* "off", "running", "Ok", "Err", "unreachable"
    last_import                 \* the last iteration: what it met and did

book_vars == << address_book, contracts, name_strategy, duplicate_resolve_global, import_pc,
                last_import >>

\* No import runs.
BookOff ==
    /\ address_book = {}
    /\ contracts = << >>
    /\ name_strategy = "Keep"
    /\ duplicate_resolve_global = None
    /\ import_pc = "off"
    /\ last_import = [kind |-> "none", book |-> {}, global |-> None, contract_id |-> "",
                      address |-> "", alias |-> "", duplicate |-> FALSE, prompted |-> FALSE,
                      resolve |-> "", book_before |-> {}, global_before |-> None]

\* The loop goes to its next contract; the import returns Ok after the last
\* one, an error when a prompt fails.
contract_imported ==
    /\ import_pc = "running"
    /\ \E typed \in { Err("prompt") } \cup { Ok(a) : a \in { "c1", "c2", "c3", "x", "y" } },
          answer \in { Err("prompt") }
                     \cup { Ok(a) : a \in { "Rename", "Skip", "Override", "SkipAll", "OverrideAll" } },
          renamed \in { Err("prompt") }
                      \cup { Ok(a) : a \in { "c1", "c2", "c3", "x", "y" } \ Keys(address_book) } :
          LET done == import_contract(address_book, duplicate_resolve_global, name_strategy,
                                      Head(contracts)[1], Head(contracts)[2],
                                      typed, answer, renamed)
          IN  /\ address_book' = done.book
              /\ duplicate_resolve_global' = done.global
              /\ last_import' = done
              /\ contracts' = IF done.kind = "next" THEN Tail(contracts) ELSE contracts
              /\ import_pc' = IF done.kind # "next" THEN done.kind
                              ELSE IF Tail(contracts) = << >> THEN "Ok" ELSE "running"
    /\ UNCHANGED name_strategy

\* ------------------------------------------- SyncDaemon::wait_blocks

VARIABLES
    sync_pc,        \* "idle", "height_wait", "sleeping", "done"
    node_height,    \* the height of the latest block of the node
    sync_op,        \* "wait_blocks" or "next_block"
    amount,         \* the argument (1 for next_block)
    height_at_call, \* what the first block_height query answered
    last_height,
    end_height,
    sync_queries,   \* block_height queries answered in the call, up to 2
    sync_sleeps,    \* sleeps of 4 s begun in the call, up to 2
    sync_result     \* "none", "Ok", "Err", "panicked"

sync_vars == << sync_pc, node_height, sync_op, amount, height_at_call, last_height, end_height,
                sync_queries, sync_sleeps, sync_result >>

\* A SyncDaemon on a chain at its first block, no call running.
SyncIdle ==
    /\ sync_pc = "idle"
    /\ node_height = 1
    /\ sync_op = "none"
    /\ amount = 0
    /\ height_at_call = 0
    /\ last_height = 0
    /\ end_height = 0
    /\ sync_queries = 0
    /\ sync_sleeps = 0
    /\ sync_result = "none"

\* The chain produces a block.
chain_block_produced ==
    /\ node_height < MaxU64
    /\ node_height' = node_height + 1
    /\ UNCHANGED << sync_pc, sync_op, amount, height_at_call, last_height, end_height,
                    sync_queries, sync_sleeps, sync_result >>

\* wait_blocks(n) is called: block_height is queried (lines 146-148).
wait_blocks(n) ==
    /\ sync_pc = "idle"
    /\ sync_pc' = "height_wait"
    /\ sync_op' = "wait_blocks"
    /\ amount' = n
    /\ UNCHANGED << node_height, height_at_call, last_height, end_height, sync_queries,
                    sync_sleeps, sync_result >>

\* next_block() is called: block_height is queried (lines 172-174).
next_block ==
    /\ sync_pc = "idle"
    /\ sync_pc' = "height_wait"
    /\ sync_op' = "next_block"
    /\ amount' = 1
    /\ UNCHANGED << node_height, height_at_call, last_height, end_height, sync_queries,
                    sync_sleeps, sync_result >>

\* block_height answers, the query of the call (lines 146-151) or of the
\* loop (lines 157-161): its error is returned; the first answer gives
\* end_height by a u64 addition, which on overflow panics in a build with
\* overflow checks and wraps in one without; the loop sleeps while
\* last_height < end_height, else Ok(()) is returned.
block_height_answered(answer, overflow_checks) ==
    /\ sync_pc = "height_wait"
    /\ sync_queries' = UpTo2(sync_queries + 1)
    /\ UNCHANGED << node_height, sync_op, amount >>
    /\ IF ~answer.ok
       THEN /\ sync_pc' = "done"
            /\ sync_result' = "Err"
            /\ UNCHANGED << height_at_call, last_height, end_height, sync_sleeps >>
       ELSE LET first == sync_queries = 0
                sum == answer.val + amount
                end == IF first THEN sum % (MaxU64 + 1) ELSE end_height
            IN
            IF first /\ sum > MaxU64 /\ overflow_checks
            THEN /\ sync_pc' = "done"
                 /\ sync_result' = "panicked"
                 /\ height_at_call' = answer.val
                 /\ last_height' = answer.val
                 /\ UNCHANGED << end_height, sync_sleeps >>
            ELSE /\ last_height' = answer.val
                 /\ height_at_call' = IF first THEN answer.val ELSE height_at_call
                 /\ end_height' = end
                 /\ IF answer.val < end
                    THEN /\ sync_pc' = "sleeping"
                         /\ sync_sleeps' = UpTo2(sync_sleeps + 1)
                         /\ UNCHANGED sync_result
                    ELSE /\ sync_pc' = "done"
                         /\ sync_result' = "Ok"
                         /\ UNCHANGED sync_sleeps

\* sleep(4 s) is over: block_height is queried again (lines 153-159).
sync_sleep_over ==
    /\ sync_pc = "sleeping"
    /\ sync_pc' = "height_wait"
    /\ UNCHANGED << node_height, sync_op, amount, height_at_call, last_height, end_height,
                    sync_queries, sync_sleeps, sync_result >>

\* The variables of the components declared after the simulated
\* interchain env.
late_vars == << co_vars, book_vars, sync_vars >>

\* ------------------------------------------------------- specifications

\* The calls on an InterchainChannel; no tracker runs.
Next ==
    \/ \E f \in ChainIds, s \in PacketSequences :
          get_packet_receive_tx(f, s) /\ UNCHANGED << tracker_vars, deploy_vars, mock_vars, late_vars >>
    \/ \E f \in ChainIds, s \in PacketSequences :
          get_packet_ack_receive_tx(f, s) /\ UNCHANGED << tracker_vars, deploy_vars, mock_vars, late_vars >>
    \/ /\ pc = "tx_wait"
       /\ \E response \in Answers : packet_tx_answered(response)
       /\ UNCHANGED << tracker_vars, deploy_vars, mock_vars, late_vars >>
    \/ \E f \in ChainIds, s \in PacketSequences :
          follow_packet(f, s) /\ UNCHANGED << tracker_vars, deploy_vars, mock_vars, late_vars >>
    \/ /\ pc = "recv_wait"
       /\ \E response \in Answers : follow_packet_received(response)
       /\ UNCHANGED << tracker_vars, deploy_vars, mock_vars, late_vars >>
    \/ /\ pc = "ack_wait"
       /\ \E response \in Answers : follow_packet_acknowledged(response)
       /\ UNCHANGED << tracker_vars, deploy_vars, mock_vars, late_vars >>
    \/ \E f \in ChainIds, hashes \in Baselines :
          find_new_channel_creation_tx(f, hashes) /\ UNCHANGED << tracker_vars, deploy_vars, mock_vars, late_vars >>
    \/ /\ pc = "cc_ack_wait"
       /\ \E response \in Answers : channel_creation_ack_answered(response)
       /\ UNCHANGED << tracker_vars, deploy_vars, mock_vars, late_vars >>
    \/ /\ pc = "cc_confirm_wait"
       /\ \E response \in Answers : channel_creation_confirm_answered(response)
       /\ UNCHANGED << tracker_vars, deploy_vars, mock_vars, late_vars >>
    \/ sleep_over /\ UNCHANGED << tracker_vars, deploy_vars, mock_vars, late_vars >>
    \/ get_connection_called /\ UNCHANGED << tracker_vars, deploy_vars, mock_vars, late_vars >>
    \/ \E chain_id \in ChainIds : get_chain_called(chain_id) /\ UNCHANGED << tracker_vars, deploy_vars, mock_vars, late_vars >>
    \/ take_result /\ UNCHANGED << tracker_vars, deploy_vars, mock_vars, late_vars >>

\* One tracker on one chain; no call on an InterchainChannel runs.
TrackerNext ==
    \/ new_block /\ UNCHANGED << vars, deploy_vars, mock_vars, late_vars >>
    \/ \E answer \in BlockInfoAnswers(chain_height) :
          cron_log_started(answer) /\ UNCHANGED << vars, deploy_vars, mock_vars, late_vars >>
    \/ \E answer \in BlockInfoAnswers(chain_height) :
          poll_answered(answer) /\ UNCHANGED << vars, deploy_vars, mock_vars, late_vars >>
    \/ \E queries_ok \in BOOLEAN : state_refreshed(queries_ok) /\ UNCHANGED << vars, deploy_vars, mock_vars, late_vars >>
    \/ tracker_sleep_over /\ UNCHANGED << vars, deploy_vars, mock_vars, late_vars >>
    \/ cancel /\ UNCHANGED << vars, deploy_vars, mock_vars, late_vars >>

all_vars == << vars, tracker_vars, deploy_vars, mock_vars, late_vars >>

\* An InterchainChannel has been constructed, no tracker started.
ChannelInit == Init /\ TrackerOff /\ DeployOff /\ MockOff /\ NoTasks /\ BookOff /\ SyncIdle

Spec == ChannelInit /\ [][Next]_all_vars

\* The calls of find_new_channel_creation_tx, one after the other.
FindNewNext ==
    \/ \E f \in ChainIds, hashes \in Baselines :
          find_new_channel_creation_tx(f, hashes) /\ UNCHANGED << tracker_vars, deploy_vars, mock_vars, late_vars >>
    \/ /\ pc = "cc_ack_wait"
       /\ \E response \in Answers : channel_creation_ack_answered(response)
       /\ UNCHANGED << tracker_vars, deploy_vars, mock_vars, late_vars >>
    \/ /\ pc = "cc_confirm_wait"
       /\ \E response \in Answers : channel_creation_confirm_answered(response)
       /\ UNCHANGED << tracker_vars, deploy_vars, mock_vars, late_vars >>
    \/ sleep_over /\ UNCHANGED << tracker_vars, deploy_vars, mock_vars, late_vars >>
    \/ take_result /\ UNCHANGED << tracker_vars, deploy_vars, mock_vars, late_vars >>

\* The runtime resumes a suspended call: a query in flight is answered, a
\* sleep ends, the caller takes the result.
LiveSpec == ChannelInit /\ [][FindNewNext]_all_vars /\ WF_all_vars(FindNewNext)

\* cron_log has been called on the handle of one chain.
CronLogInit ==
    /\ Init
    /\ chan = new("connection-0", InterchainPort("grpc-a", "A", "transfer", None),
                  InterchainPort("grpc-b", "B", "wasm.host", None))
    /\ TrackerInit
    /\ DeployOff
    /\ MockOff
    /\ NoTasks
    /\ BookOff
    /\ SyncIdle

TrackerSpec == CronLogInit /\ [][TrackerNext]_all_vars

\* One channel pair has been constructed; no call on it runs, no tracker,
\* nothing is stored, built, uploaded or sent yet.
Idle ==
    /\ ChannelInit
    /\ chan = new("connection-0", InterchainPort("grpc-a", "A", "transfer", None),
                  InterchainPort("grpc-b", "B", "wasm.host", None))

\* The handles to the stores are used directly.
StoreNext ==
    \/ \E handle \in Handles, contract_id \in ContractIds :
          state_set_address(handle, contract_id)
          /\ UNCHANGED << vars, tracker_vars, mock_vars, late_vars >>
    \/ \E handle \in Handles, contract_id \in ContractIds :
          state_set_code_id(handle, contract_id)
          /\ UNCHANGED << vars, tracker_vars, mock_vars, late_vars >>

StoreSpec == Idle /\ [][StoreNext]_all_vars

\* The caller works through its Contract: set_address and set_code_id of the
\* Contract are those of chain.state() with the id of the Contract.
ContractNext ==
    \/ state_set_address("chain.state()", contract.id)
       /\ UNCHANGED << vars, tracker_vars, mock_vars, late_vars >>
    \/ contract_set_default_address /\ UNCHANGED << vars, tracker_vars, mock_vars, late_vars >>
    \/ state_set_code_id("chain.state()", contract.id)
       /\ UNCHANGED << vars, tracker_vars, mock_vars, late_vars >>
    \/ contract_set_default_code_id /\ UNCHANGED << vars, tracker_vars, mock_vars, late_vars >>

ContractSpec == Idle /\ [][ContractNext]_all_vars

\* The caller builds and uploads the contract, and sets code ids by hand.
UploadNext ==
    \/ state_set_code_id("chain.state()", contract.id)
       /\ UNCHANGED << vars, tracker_vars, mock_vars, late_vars >>
    \/ contract_set_default_code_id /\ UNCHANGED << vars, tracker_vars, mock_vars, late_vars >>
    \/ wasm_changed /\ UNCHANGED << vars, tracker_vars, mock_vars, late_vars >>
    \/ upload_if_needed_called /\ UNCHANGED << vars, tracker_vars, mock_vars, late_vars >>

UploadSpec == Idle /\ [][UploadNext]_all_vars

\* Packets are sent over the simulated channel and followed.
MockNext ==
    \/ \E chain_id \in MockChains :
          mock_next_block(chain_id) /\ UNCHANGED << vars, tracker_vars, deploy_vars, late_vars >>
    \/ \E src \in MockChains, height \in 1..(MaxMockHeight + 1) :
          mock_send_packet(src, height) /\ UNCHANGED << vars, tracker_vars, deploy_vars, late_vars >>
    \/ wait_ibc_called /\ UNCHANGED << vars, tracker_vars, deploy_vars, late_vars >>

MockSpec == Idle /\ [][MockNext]_all_vars

\* Two follow_packet and one find_new_channel_creation_tx are spawned on one
\* channel pair with its channels registered, and the executor resumes them
\* in any order.
ConcurrentInit ==
    /\ Init
    /\ chan = new("connection-0", InterchainPort("grpc-a", "A", "transfer", Some("channel-0")),
                  InterchainPort("grpc-b", "B", "wasm.host", Some("channel-7")))
    /\ TrackerOff
    /\ DeployOff
    /\ MockOff
    /\ tasks = [t \in 1..3 |-> Pending]
    /\ node \in Worlds
    /\ BookOff
    /\ SyncIdle

ConcurrentNext ==
    \/ \E t \in 1..2, f \in { "A", "B" }, s \in PacketSequences :
          spawn_follow_packet(t, f, s)
          /\ UNCHANGED << vars, tracker_vars, deploy_vars, mock_vars, book_vars, sync_vars >>
    \/ \E f \in { "A", "B" } :
          spawn_find_new_channel_creation_tx(3, f)
          /\ UNCHANGED << vars, tracker_vars, deploy_vars, mock_vars, book_vars, sync_vars >>
    \/ \E t \in 1..3 :
          task_polled(t) /\ UNCHANGED << vars, tracker_vars, deploy_vars, mock_vars, book_vars, sync_vars >>

ConcurrentSpec == ConcurrentInit /\ [][ConcurrentNext]_all_vars

\* from_previous_context has read the deployment of three contracts and
\* enters its loop; the address book has entries under some of their ids.
ImportInit ==
    /\ Init
    /\ chan = new("connection-0", InterchainPort("grpc-a", "A", "transfer", None),
                  InterchainPort("grpc-b", "B", "wasm.host", None))
    /\ TrackerOff
    /\ DeployOff
    /\ MockOff
    /\ NoTasks
    /\ address_book \in { { << a, "old" >> : a \in known } : known \in SUBSET { "c1", "c2", "c3" } }
    /\ contracts = << << "c1", "new1" >>, << "c2", "new2" >>, << "c3", "new3" >> >>
    /\ name_strategy \in { "Keep", "Rename" }
    /\ duplicate_resolve_global = None
    /\ import_pc = "running"
    /\ SyncIdle
    /\ last_import = [kind |-> "none", book |-> {}, global |-> None, contract_id |-> "",
                      address |-> "", alias |-> "", duplicate |-> FALSE, prompted |-> FALSE,
                      resolve |-> "", book_before |-> {}, global_before |-> None]

ImportNext ==
    \/ contract_imported /\ UNCHANGED << vars, tracker_vars, deploy_vars, mock_vars, co_vars, sync_vars >>

ImportSpec == ImportInit /\ [][ImportNext]_all_vars

\* One call of wait_blocks or next_block on a chain that produces blocks.
WaitNext ==
    \/ chain_block_produced
       /\ UNCHANGED << vars, tracker_vars, deploy_vars, mock_vars, co_vars, book_vars >>
    \/ \E n \in 0..MaxU64 :
          wait_blocks(n)
          /\ UNCHANGED << vars, tracker_vars, deploy_vars, mock_vars, co_vars, book_vars >>
    \/ next_block /\ UNCHANGED << vars, tracker_vars, deploy_vars, mock_vars, co_vars, book_vars >>
    \/ \E answer \in { Ok(node_height), Err(TransportError) }, overflow_checks \in BOOLEAN :
          block_height_answered(answer, overflow_checks)
          /\ UNCHANGED << vars, tracker_vars, deploy_vars, mock_vars, co_vars, book_vars >>
    \/ sync_sleep_over
       /\ UNCHANGED << vars, tracker_vars, deploy_vars, mock_vars, co_vars, book_vars >>

WaitSpec == Idle /\ [][WaitNext]_all_vars

\* ----------------------------------------------------------- properties

Running(method) == op = method /\ pc # "idle"
Done(method) == op = method /\ pc = "done"
ReturnedOk == result.status = "returned" /\ result.value.ok
ReturnedErr(e) == result = Returned(Err(e))

DistinctChains == chan.port_a.chain_id # chan.port_b.chain_id

\* C1: when follow_packet returns Ok, the value is exactly two transaction
\* references: first the receive transaction (the one match of the receive
\* query, which went to the destination chain), tagged with the destination
\* chain id and handle, then the acknowledgment transaction (the one match of
\* the acknowledgment query), tagged with the source chain id, which is `from`;
\* both transactions have status code 0.
C1_FollowPacketReturnsReceiveThenAck ==
    (Done("follow_packet") /\ ReturnedOk) =>
        LET txs == result.value.val IN
        /\ Len(txs) = 2
        /\ Len(answers) = 2 /\ Len(queries) = 2
        /\ answers[1].matches = 1 /\ answers[2].matches = 1
        /\ txs[1].tx_hash = answers[1].first[1].txhash
        /\ txs[2].tx_hash = answers[2].first[1].txhash
        /\ answers[1].first[1].code = 0
        /\ answers[2].first[1].code = 0
        /\ txs[1].chain_id = dst_port[1].chain_id
        /\ txs[1].channel = queries[1].chain
        /\ txs[2].chain_id = from
        /\ txs[2].channel = queries[2].chain
        /\ DistinctChains =>
              /\ txs[1].chain_id # from
              /\ txs[1].chain_id \in { chan.port_a.chain_id, chan.port_b.chain_id }
              /\ txs[1].channel # txs[2].channel

C1_Witness ==
    /\ Done("follow_packet") /\ ReturnedOk
    /\ DistinctChains
    /\ from = "B"
    /\ result.value.val[1].tx_hash = "H1"
    /\ result.value.val[2].tx_hash = "H2"

\* C2: for a channel pair whose endpoints X and Y are on different chains,
\* get_ordered_ports_from(chain of X) is (X, Y), get_ordered_ports_from(chain
\* of Y) is (Y, X), and every other chain id gives a configuration error and no
\* pair; the ports follow_packet binds are that pair for its `from`.
C2_EndpointResolutionSymmetry ==
    LET X == chan.port_a
        Y == chan.port_b IN
    DistinctChains =>
        /\ get_ordered_ports_from(chan, X.chain_id) = Ok(<< X, Y >>)
        /\ get_ordered_ports_from(chan, Y.chain_id) = Ok(<< Y, X >>)
        /\ \A c \in ChainIds \ { X.chain_id, Y.chain_id } :
              get_ordered_ports_from(chan, c) = Err(UnknownChainError(c))
        /\ Running("follow_packet") =>
              /\ from = X.chain_id => src_port = Some(X) /\ dst_port = Some(Y)
              /\ from = Y.chain_id => src_port = Some(Y) /\ dst_port = Some(X)
              /\ from \notin { X.chain_id, Y.chain_id } =>
                    /\ src_port = None /\ dst_port = None
                    /\ ReturnedErr(UnknownChainError(from))

C2_Witness ==
    /\ DistinctChains
    /\ Running("follow_packet")
    /\ from = chan.port_b.chain_id
    /\ src_port = Some(chan.port_b)
    /\ dst_port = Some(chan.port_a)
    /\ pc = "ack_wait"

KnownChain(c) == c \in { chan.port_a.chain_id, chan.port_b.chain_id }

\* C3, as the specification states it: an unknown chain id given as `from` to follow_packet,
\* get_packet_receive_tx, get_packet_ack_receive_tx or
\* find_new_channel_creation_tx ends the call with the configuration error
\* "chain ... doesn't exist" and no query was issued.
C3_UnknownChainIsConfigurationError ==
    (op \in Methods /\ pc # "idle" /\ ~KnownChain(from)) =>
        /\ pc = "done"
        /\ queries = <<>>
        /\ ReturnedErr(UnknownChainError(from))

\* The endpoint a packet sent from `from` is received on.
Destination == IF from = chan.port_a.chain_id THEN chan.port_b ELSE chan.port_a
Source == IF from = chan.port_a.chain_id THEN chan.port_a ELSE chan.port_b

\* C4, as the specification states it: when the channel id is missing on either endpoint,
\* follow_packet fails with the "No channel registered" error and issues no query.
C4_MissingChannelOnEitherEndpointFails ==
    ( /\ Running("follow_packet")
      /\ KnownChain(from)
      /\ (chan.port_a.channel = None \/ chan.port_b.channel = None) ) =>
        /\ pc = "done"
        /\ queries = <<>>
        /\ ReturnedErr(NoChannelError(chan))

\* C4, as the code has it: when the channel id is missing on the destination endpoint,
\* follow_packet fails with the "No channel registered" error and issues no
\* query on either chain; when the destination endpoint has one, the receive
\* query is issued and the call does not fail with that error, whether or not
\* the source endpoint has a channel id.
C4_MissingDestinationChannelFails ==
    (Running("follow_packet") /\ KnownChain(from)) =>
        /\ Destination.channel = None =>
              /\ pc = "done"
              /\ queries = <<>>
              /\ ReturnedErr(NoChannelError(chan))
        /\ Destination.channel # None =>
              /\ Len(queries) >= 1
              /\ queries[1].chain = Destination.chain
              /\ ~ReturnedErr(NoChannelError(chan))

C4_Witness ==
    /\ Done("follow_packet")
    /\ DistinctChains
    /\ KnownChain(from)
    /\ Destination.channel = None
    /\ Source.channel # None
    /\ queries = <<>>
    /\ ReturnedErr(NoChannelError(chan))

\* C5: in follow_packet the receive query and the acknowledgment query are
\* each issued at most once, and an answer of zero matches or of more than one
\* ends the call at that query with a hard error and no transaction
\* references; Ok is returned only when both answers had exactly one match.
C5_ExactlyOneMatchOrHardError ==
    Running("follow_packet") =>
        /\ Len(queries) <= 2
        /\ Len(answers) <= Len(queries)
        /\ Len(queries) >= 1 => queries[1].events[1][1] = "recv_packet"
        /\ Len(queries) = 2 => queries[2].events[1][1] = "acknowledge_packet"
        /\ \A i \in 1..Len(answers) :
              (answers[i].matches = 0 \/ answers[i].matches > 1) =>
                  /\ pc = "done"
                  /\ ReturnedErr(MultipleTxError)
                  /\ Len(answers) = i
                  /\ Len(queries) = i
        /\ ReturnedOk =>
              /\ Len(answers) = 2
              /\ \A i \in 1..2 : answers[i].matches = 1

C5_Witness ==
    /\ Done("follow_packet")
    /\ Len(answers) = 2
    /\ answers[1].matches = 1
    /\ answers[2].matches = 2
    /\ ReturnedErr(MultipleTxError)

\* What follow_packet surfaces when a query is answered with several matches.
SeveralMatchesOutcomes ==
    { Returned(get_tx_by_events_and_assert_one(Ok(<< t1, t2 >>))) :
        t1, t2 \in TxPool("acknowledge_packet") }

\* C6, as the specification states it: the outcome of follow_packet after an answer of zero
\* matches differs from its outcome after an answer of several matches.
C6_AbsenceDiffersFromSeveralMatches ==
    ( /\ Done("follow_packet")
      /\ answers # <<>>
      /\ answers[Len(answers)].matches = 0 ) =>
        result \notin SeveralMatchesOutcomes

\* C7: when the one receive transaction, or the one acknowledgment
\* transaction, has a non-zero status code, follow_packet ends there (no further
\* query) with TxFailed carrying the code and the raw log of that transaction
\* (with the id of the chain it was found on); it never returns Ok.
C7_NonZeroStatusIsTxFailed ==
    Running("follow_packet") =>
        \A i \in 1..Len(answers) :
            (answers[i].matches = 1 /\ answers[i].first[1].code # 0) =>
                LET tx == answers[i].first[1] IN
                /\ pc = "done"
                /\ Len(answers) = i
                /\ Len(queries) = i
                /\ result.status = "returned"
                /\ ~result.value.ok
                /\ result.value.err.variant = "TxFailed"
                /\ result.value.err.code = tx.code
                /\ result.value.err.reason =
                      << "Raw log on ",
                         IF i = 1 THEN Destination.chain_id ELSE Source.chain_id,
                         " : ", tx.raw_log >>

C7_Witness ==
    /\ Done("follow_packet")
    /\ DistinctChains
    /\ Len(answers) = 2
    /\ answers[2].matches = 1
    /\ answers[2].first[1].code = 11
    /\ result.value.err.variant = "TxFailed"

\* The receive transaction carries the acknowledgment string a.
CarriesAck(tx, a) ==
    tx.events = << RecvPacket, Event("write_acknowledgement", FullAttributes(a)) >>

\* C8: for every acknowledgment string carried by the receive transaction
\* (result envelope with valid base64, with undecodable base64, with bytes that
\* are not UTF-8, error envelope, other text), follow_packet goes on to the
\* acknowledgment query, and what it returns is decided by the answer to that
\* query alone.
C8_AcknowledgmentContentNeverFails ==
    \A a \in AckStrings :
        ( /\ Running("follow_packet")
          /\ Len(answers) >= 1
          /\ answers[1].matches = 1
          /\ answers[1].first[1].code = 0
          /\ CarriesAck(answers[1].first[1], a) ) =>
            /\ pc \in { "ack_wait", "done" }
            /\ Len(queries) = 2
            /\ queries[2].events[1][1] = "acknowledge_packet"
            /\ decoded_ack # <<>>
            /\ pc = "ack_wait" => result = NoResult
            /\ pc = "done" =>
                  /\ Len(answers) = 2
                  /\ result.status = "returned"
                  /\ IF answers[2].matches = -1 THEN ReturnedErr(TransportError)
                     ELSE IF answers[2].matches # 1 THEN ReturnedErr(MultipleTxError)
                     ELSE IF answers[2].first[1].code # 0
                     THEN ~result.value.ok /\ result.value.err.variant = "TxFailed"
                     ELSE ReturnedOk

C8_Witness ==
    /\ Done("follow_packet")
    /\ Len(answers) = 2
    /\ CarriesAck(answers[1].first[1], ResultEnvelope("!!"))
    /\ decoded_ack = << "Decoded successful ack : ", "" >>
    /\ ReturnedOk

\* C9, as the specification states it: follow_packet always ends with a value, Ok or a typed
\* error; in particular a unique receive transaction of status 0 that has no
\* write_acknowledgement event, or whose event lacks packet_sequence,
\* packet_data or packet_ack, makes it return an error.
C9_FailuresAreTypedErrors ==
    Done("follow_packet") =>
        /\ result.status = "returned"
        /\ ( /\ Len(answers) >= 1
             /\ answers[1].matches = 1
             /\ answers[1].first[1].code = 0
             /\ read_acknowledgement(answers[1].first[1]).panic ) =>
               ~result.value.ok

\* The hash h is not the baseline component b.
DiffersFromBaseline(h, b) == b = None \/ b[1] # h

\* C10: in one attempt of find_new_channel_creation_tx whose two queries
\* (ordered Desc) were answered, the call returns the pair (first of the
\* handshake-ack answer, first of the handshake-confirm answer) if and only if
\* both exist, the ack hash differs from the first baseline hash and the confirm
\* hash from the second, an absent baseline component differing from every hash.
C10_NewPairIffBothDifferFromBaseline ==
    ( /\ Running("find_new_channel_creation_tx")
      /\ Len(answers) = 2
      /\ answers[2].matches >= 0 ) =>
        LET ack == answers[1].first
            confirm == answers[2].first
            n == Len(queries) IN
        /\ queries[n - 1].order = Some("Desc")
        /\ queries[n].order = Some("Desc")
        /\ IF /\ ack # None
              /\ confirm # None
              /\ DiffersFromBaseline(ack[1].txhash, baseline[1])
              /\ DiffersFromBaseline(confirm[1].txhash, baseline[2])
           THEN pc = "done" /\ result = Returned(Ok(<< ack[1], confirm[1] >>))
           ELSE /\ pc \in { "sleeping", "done" }
                /\ ~ReturnedOk

C10_Witness ==
    /\ Done("find_new_channel_creation_tx")
    /\ baseline = NoBaseline
    /\ attempts = 1
    /\ Len(answers) = 2
    /\ answers[1].matches = 2
    /\ ReturnedOk
    /\ result.value.val[1].txhash = "H1"
    /\ result.value.val[2].txhash = "H2"

\* ------------------------------------- find_new_channel_creation_tx, C11-C14

FindNew == "find_new_channel_creation_tx"

\* What the retry loop has used so far stays within its budget: attempts one to
\* five, a sleep of 10 after each attempt that is over, two queries an attempt,
\* the handshake-ack query before the handshake-confirm query.
WithinRetryBudget ==
    Running(FindNew) =>
        /\ attempts \in 1..MaxAttempts
        /\ slept <= MaxAttempts * SleepSecs
        /\ slept = SleepSecs * (IF pc = "done" /\ Len(answers) = 2 /\ ~ReturnedOk
                                   /\ answers[2].matches >= 0
                                THEN attempts ELSE attempts - 1)
        /\ Len(queries) <= 2 * attempts
        /\ Len(queries) <= 2 * MaxAttempts
        /\ \A i \in 1..Len(queries) :
              queries[i] = IF i % 2 = 1 THEN channel_creation_ack_query(chan, from).val
                           ELSE channel_creation_confirm_query(chan, from).val

\* C11: every call of find_new_channel_creation_tx ends, whatever the node
\* answers, after at most 5 attempts (a handshake-ack query, then a
\* handshake-confirm query) and at most 5 sleeps of 10, 50 in all.
C11_FindNewTerminatesWithinBudget ==
    /\ []WithinRetryBudget
    /\ Running(FindNew) ~> (pc = "done")

C11_Witness ==
    /\ Done(FindNew)
    /\ attempts = MaxAttempts
    /\ slept = MaxAttempts * SleepSecs
    /\ Len(queries) = 2 * MaxAttempts

\* The attempt that just ended found nothing newer than the baseline: both
\* queries were answered and the call did not return a pair.
NothingNewInLastAttempt ==
    /\ Len(answers) = 2
    /\ answers[2].matches >= 0
    /\ ~is_new_channel_creation(<< answers[1].first, answers[2].first >>, baseline)

\* C12: while every attempt finds the latest handshake-ack or
\* handshake-confirm transaction absent or with the baseline's hash, the call
\* goes through exactly 5 attempts and then fails with the "no new channel
\* creation" error; a pair it returns holds no hash of the baseline.
C12_ExhaustionAfterFiveAttempts ==
    Running(FindNew) =>
        /\ NothingNewInLastAttempt =>
              /\ pc \in { "sleeping", "done" }
              /\ pc = "done" =>
                    /\ attempts = MaxAttempts
                    /\ Len(queries) = 2 * MaxAttempts
                    /\ ReturnedErr(NoNewChannelError(baseline))
        /\ ReturnedOk =>
              /\ Some(result.value.val[1].txhash) # baseline[1]
              /\ Some(result.value.val[2].txhash) # baseline[2]

C12_Witness ==
    /\ Done(FindNew)
    /\ baseline = << Some("H1"), Some("H2") >>
    /\ attempts = MaxAttempts
    /\ NothingNewInLastAttempt
    /\ answers[1].first # None
    /\ answers[1].first[1].txhash = "H1"
    /\ answers[2].first = None
    /\ ReturnedErr(NoNewChannelError(baseline))

\* A query of the running attempt failed in the adapter.
AdapterFailed == \E i \in 1..Len(answers) : answers[i].matches = -1

\* C13: a failed query, the handshake-ack one or the handshake-confirm one,
\* ends the call on the spot: it is the last query of the call, no sleep
\* follows it and the call returns a failure.
C13_AdapterErrorAbortsAtOnce ==
    ( Running(FindNew) /\ AdapterFailed ) =>
        /\ pc = "done"
        /\ answers[Len(answers)].matches = -1
        /\ Len(queries) = 2 * (attempts - 1) + Len(answers)
        /\ slept = SleepSecs * (attempts - 1)
        /\ result.status = "returned"
        /\ ~result.value.ok

C13_Witness ==
    /\ Done(FindNew)
    /\ attempts = 2
    /\ Len(answers) = 2
    /\ answers[2].matches = -1
    /\ Len(queries) = 4
    /\ slept = SleepSecs

\* C14, as the specification states it: the failure the caller receives after
\* a failed query is that adapter error, not the error of the exhausted loop.
C14_AdapterErrorPropagatedAsIs ==
    ( Done(FindNew) /\ AdapterFailed ) =>
        /\ ReturnedErr(TransportError)
        /\ ~ReturnedErr(NoNewChannelError(baseline))

\* ------------------------------------------------- the tracker, C15-C19

\* C15, as the specification states it: a poll updates the state only when
\* the height it read is strictly greater than the last-observed height, and
\* an update makes that height the last-observed one, so that no height has
\* the state recomputed twice.
C15_RecomputeOncePerHeight ==
    /\ tracker_pc = "new_state_wait" => new_block_height > last_observed
    /\ tracker_pc = "sleeping" => new_block_height <= last_observed

C17_DiffOnlyOnChange ==
    updates >= 1 =>
        /\ state # prev_state => Len(logged) = 1
        /\ state = prev_state => logged = << >>

C17_Witness ==
    /\ updates = 2
    /\ state.channel_ids = { "channel-0" }
    /\ state.committed_packets = { << "channel-0", { 1 } >> }
    /\ state = prev_state
    /\ logged = << >>

\* C18: an update that finds more channel ids than the state held logs one
\* line, and the channel ids in it are the ids of the new state that the
\* state held did not have.
C18_GrownChannelSetLogsAddedIdsOnly ==
    ( updates >= 1 /\ prev_state.channel_ids \subseteq state.channel_ids
      /\ prev_state.channel_ids # state.channel_ids ) =>
        /\ Len(logged) = 1
        /\ logged[1].update_diff.new_channels = state.channel_ids \ prev_state.channel_ids
        /\ logged[1].update_diff.new_channels \cap prev_state.channel_ids = {}

C18_Witness ==
    /\ updates = 2
    /\ prev_state.channel_ids = { "channel-0" }
    /\ state.channel_ids = { "channel-0", "channel-1" }
    /\ Len(logged) = 1
    /\ logged[1].update_diff.new_channels = { "channel-1" }

\* C19, as the specification states it: a tracker that was not cancelled is
\* in its loop, a poll in flight or a sleep that ends in the next poll,
\* whatever block_info and new_state answered.
C19_LoopNeverEndsByItself ==
    tracker_pc # "cancelled" =>
        tracker_pc \in { "start_wait", "poll_wait", "new_state_wait", "sleeping" }

\* --------------------------------------------------- the channel pair, C20

\* C20: no call changes the InterchainChannel: connection id, chain ids,
\* ports and channel ids stay what new() was given.
C20_ChannelPairNeverChanges == [][chan' = chan]_all_vars

C20_Witness ==
    /\ Done(FindNew)
    /\ ReturnedOk
    /\ chan.port_a.channel = None
    /\ chan.port_b.channel = None

\* ------------------------------------------------------------- C21-C30

\* C21, as the specification states it: the two endpoints of a channel pair
\* are on chains with different identifiers.
C21_EndpointsOnDifferentChains == chan.port_a.chain_id # chan.port_b.chain_id

\* The place of the first attribute with the key, counted from the front.
FirstIndexOf(attrs, key) ==
    CHOOSE i \in 1..Len(attrs) :
        attrs[i].key = key /\ \A j \in 1..(i - 1) : attrs[j].key # key

\* The write_acknowledgement event of the receive transaction found carries
\* the three attributes follow_packet reads.
AcknowledgementRead ==
    /\ Running("follow_packet")
    /\ Len(answers) >= 1
    /\ answers[1].matches = 1
    /\ answers[1].first[1].code = 0
    /\ ~read_acknowledgement(answers[1].first[1]).panic

\* C23: the lookup of a key gives the value of the first attribute with that
\* key, a for [(k, a), (k, b)], and the packet_sequence, packet_data and
\* packet_ack that follow_packet reads from the write_acknowledgement event
\* are those first values.
C23_AttributeLookupIsFirstMatch ==
    /\ \A a, b \in AckStrings :
          get_first_attribute_value(Event("e", << Attr("k", a), Attr("k", b) >>), "k")
              = Some(a)
    /\ AcknowledgementRead =>
          LET attrs == get_events(answers[1].first[1], "write_acknowledgement")[1].attributes
              read == read_acknowledgement(answers[1].first[1]) IN
          /\ read.recv_packet_sequence = attrs[FirstIndexOf(attrs, "packet_sequence")].value
          /\ read.recv_packet_data = attrs[FirstIndexOf(attrs, "packet_data")].value
          /\ read.acknowledgment = attrs[FirstIndexOf(attrs, "packet_ack")].value
          /\ decoded_ack = decoded_ack_of(attrs[FirstIndexOf(attrs, "packet_ack")].value)

C23_Witness ==
    /\ AcknowledgementRead
    /\ LET attrs == get_events(answers[1].first[1], "write_acknowledgement")[1].attributes IN
       /\ Len(attrs) = 4
       /\ attrs[3] = Attr("packet_ack", OpaqueText("plain"))
       /\ attrs[4] = Attr("packet_ack", ErrorEnvelope("oops"))
    /\ decoded_ack = decoded_ack_of(OpaqueText("plain"))
    /\ pc = "ack_wait"

\* C27: in follow_packet the acknowledgment query is issued only once the
\* receive query was answered with exactly one transaction of code 0 (whose
\* acknowledgment could be read); when the receive leg fails the receive
\* query is the only query of the call.
C27_AckQueryOnlyAfterConfirmedReceive ==
    Running("follow_packet") =>
        /\ Len(queries) = 2 =>
              /\ Len(answers) >= 1
              /\ answers[1].matches = 1
              /\ answers[1].first[1].code = 0
              /\ queries[1].events[1][1] = "recv_packet"
              /\ queries[1].chain = Destination.chain
              /\ queries[2].events[1][1] = "acknowledge_packet"
              /\ queries[2].chain = Source.chain
        /\ ( Len(answers) >= 1
             /\ (answers[1].matches # 1 \/ answers[1].first[1].code # 0) ) =>
              /\ pc = "done"
              /\ Len(queries) = 1
              /\ ~ReturnedOk

C27_Witness ==
    /\ Done("follow_packet")
    /\ Len(answers) = 1
    /\ answers[1].matches = 1
    /\ answers[1].first[1].code = 11
    /\ Len(queries) = 1

\* C28, as the specification states it: the acknowledgment query of
\* follow_packet goes to the source chain and filters on the port of the
\* source endpoint, the channel id of the source endpoint and the sequence.
C28_AckQueryFiltersOnSourceEndpoint ==
    ( Running("follow_packet") /\ Len(queries) = 2 /\ Source.channel # None ) =>
        /\ queries[2].chain = Source.chain
        /\ queries[2].events[1][5] = Source.port
        /\ queries[2].events[2][5] = Source.channel[1]
        /\ queries[2].events[3][5] = sequence

\* C28, as the code has it: the acknowledgment query of follow_packet goes to
\* the source chain and filters on the port and the channel id of the
\* destination endpoint, as the packet's destination port and channel, and on
\* the sequence.
C28_AckQueryFiltersOnDestinationEndpoint ==
    ( Running("follow_packet") /\ Len(queries) = 2 ) =>
        /\ Destination.channel # None
        /\ queries[2] =
              Query(Source.chain,
                    << EventFilter("acknowledge_packet", "packet_dst_port", Destination.port),
                       EventFilter("acknowledge_packet", "packet_dst_channel",
                                   Destination.channel[1]),
                       EventFilter("acknowledge_packet", "packet_sequence", sequence) >>,
                    None)

C28_Witness ==
    /\ Running("follow_packet")
    /\ from = "A"
    /\ DistinctChains
    /\ Len(queries) = 2
    /\ Source.channel # None
    /\ Source.channel # Destination.channel
    /\ queries[2].chain = "grpc-a"
    /\ queries[2].events[1][5] = "wasm.host"
    /\ pc = "ack_wait"

\* C29, as the specification states it: both handshake queries of an attempt
\* go to the chain of the destination endpoint.
C29_BothHandshakeQueriesOnDestination ==
    Running(FindNew) => \A i \in 1..Len(queries) : queries[i].chain = Destination.chain

\* C29, as the code has it: the handshake-ack query goes to the chain of the
\* source endpoint, filtered by (source port, destination port as
\* counterparty, connection id); the handshake-confirm query goes to the
\* chain of the destination endpoint, filtered by (destination port, source
\* port as counterparty); both are ordered Desc and the first transaction of
\* each answer is the one compared with the baseline.
C29_HandshakeAckOnSourceConfirmOnDestination ==
    ( Running(FindNew) /\ KnownChain(from) ) =>
        /\ \A i \in 1..Len(queries) :
              /\ queries[i].order = Some("Desc")
              /\ i % 2 = 1 =>
                    /\ queries[i].chain = Source.chain
                    /\ queries[i].events =
                          << EventFilter("channel_open_ack", "port_id", Source.port),
                             EventFilter("channel_open_ack", "counterparty_port_id",
                                         Destination.port),
                             EventFilter("channel_open_ack", "connection_id",
                                         chan.connection_id) >>
              /\ i % 2 = 0 =>
                    /\ queries[i].chain = Destination.chain
                    /\ queries[i].events =
                          << EventFilter("channel_open_confirm", "port_id", Destination.port),
                             EventFilter("channel_open_confirm", "counterparty_port_id",
                                         Source.port) >>
        /\ ( Len(answers) >= 1 /\ answers[1].matches >= 0 ) => cc_ack = answers[1].first
        /\ ( Len(answers) = 2 /\ answers[2].matches >= 0 ) =>
              /\ cc_confirm = answers[2].first
              /\ ReturnedOk <=> is_new_channel_creation(<< cc_ack, cc_confirm >>, baseline)

C29_Witness ==
    /\ Running(FindNew)
    /\ from = "B"
    /\ DistinctChains
    /\ Len(queries) = 2
    /\ queries[1].chain = "grpc-b"
    /\ queries[2].chain = "grpc-a"
    /\ Len(answers) = 2
    /\ answers[1].matches = 2
    /\ pc = "sleeping"

\* C30: after an update the tracker holds the state new_state answered,
\* whether or not it differs from the state held before and whether or not a
\* line was logged; the line an update logs is the diff from the state the
\* update before it computed.
C30_StoredStateIsFreshState ==
    updates >= 1 =>
        /\ state = computed[2]
        /\ prev_state = computed[1]
        /\ logged = IF computed[1] # computed[2]
                    THEN << log_state(computed[1], computed[2], TrackedChainId) >>
                    ELSE << >>

C30_Witness ==
    /\ updates = 2
    /\ computed[1] # computed[2]
    /\ computed[1].channel_ids = { "channel-0" }
    /\ state = computed[2]
    /\ Len(logged) = 1

C24_StoreRoundTripThroughSharedHandles ==
    \A handle \in Handles :
        /\ \A contract_id \in ContractIds :
              LET address == get_address(cells, handle, contract_id)
                  code_id == get_code_id(cells, handle, contract_id)
                  last_address == written[Target(handle)].addresses[contract_id]
                  last_code_id == written[Target(handle)].code_ids[contract_id] IN
              /\ IF last_address # None
                 THEN address.ok /\ address.val = last_address[1]
                 ELSE ~address.ok /\ address.err = AddrNotInStore(contract_id)
              /\ IF last_code_id # None
                 THEN code_id.ok /\ code_id.val = last_code_id[1]
                 ELSE ~code_id.ok /\ code_id.err = CodeIdNotInStore(contract_id)
        /\ Keys(get_all_addresses(cells, handle).val) =
              { id \in ContractIds : written[Target(handle)].addresses[id] # None }
        /\ Keys(get_all_code_ids(cells, handle).val) =
              { id \in ContractIds : written[Target(handle)].code_ids[id] # None }
        /\ sets_done[Target(handle)] = [addresses |-> 1, code_ids |-> 1] =>
              /\ Cardinality(get_all_addresses(cells, handle).val) = 1
              /\ Cardinality(get_all_code_ids(cells, handle).val) = 1

C24_Witness ==
    /\ sets_done["state"] = [addresses |-> 2, code_ids |-> 1]
    /\ sets_done["shared"] = [addresses |-> 1, code_ids |-> 1]
    /\ written["state"].addresses["counter"] = Some("addr2")
    /\ get_address(cells, "chain.state().clone()", "counter") = Ok("addr2")
    /\ get_address(cells, "chain.state()", "counter") = Ok("addr2")
    /\ get_address(cells, "shared", "counter") = Ok("addr1")
    /\ get_address(cells, "shared.clone()", "counter") = Ok("addr1")
    /\ get_code_id(cells, "chain.state().clone()", "cw20").ok
    /\ ~get_code_id(cells, "shared", "cw20").ok

\* C25: address() is the address last set in the state for the contract id
\* when there is one, whatever the default; the default address when the
\* state has none; the error AddrNotInStore when there is neither. code_id()
\* likewise with the default code id and CodeIdNotInStore.
C25_StateEntryBeforeDefault ==
    LET address == Contract_address(contract, cells)
        code_id == Contract_code_id(contract, cells)
        state_address == written["state"].addresses[contract.id]
        state_code_id == written["state"].code_ids[contract.id] IN
    /\ state_address # None => address.ok /\ address.val = state_address[1]
    /\ ( state_address = None /\ contract.default_address # None ) =>
          address.ok /\ address.val = contract.default_address[1]
    /\ ( state_address = None /\ contract.default_address = None ) =>
          ~address.ok /\ address.err = AddrNotInStore(contract.id)
    /\ state_code_id # None => code_id.ok /\ code_id.val = state_code_id[1]
    /\ ( state_code_id = None /\ contract.default_code_id # None ) =>
          code_id.ok /\ code_id.val = contract.default_code_id[1]
    /\ ( state_code_id = None /\ contract.default_code_id = None ) =>
          ~code_id.ok /\ code_id.err = CodeIdNotInStore(contract.id)

C25_Witness ==
    /\ written["state"].addresses[contract.id] = Some("addr1")
    /\ contract.default_address = Some("addr2")
    /\ Contract_address(contract, cells) = Ok("addr1")
    /\ written["state"].code_ids[contract.id] = None
    /\ contract.default_code_id = Some(2)
    /\ Contract_code_id(contract, cells) = Ok(2)

\* The last call of upload_if_needed had both checksums and they differed.
ChecksumDiffers ==
    /\ call.on_chain # None
    /\ call.local # None
    /\ call.on_chain[1] # call.local[1]

\* The last call had a code id and could not get one of the checksums.
ChecksumUnknown == call.registered /\ (call.on_chain = None \/ call.local = None)

\* C26, as it is stated: upload_if_needed uploads exactly when no code id is
\* registered or the checksums differ, and otherwise returns None.
C26_UploadsIffUnregisteredOrChanged ==
    call.made =>
        /\ call.upload_called <=> (~call.registered \/ ChecksumDiffers)
        /\ ~call.upload_called => call.returned = "Ok(None)" /\ call.stored = 0

\* C26, as the code has it: upload_if_needed uploads exactly when code_id()
\* fails or both checksums were obtained and differ; when the code id is
\* there and a checksum cannot be obtained it returns that error; otherwise
\* it returns None; without an upload nothing is stored on the chain. A call
\* right after one that returned Ok uploads nothing.
C26_UploadsIffUnregisteredOrKnownChanged ==
    call.made =>
        /\ call.upload_called <=> (~call.registered \/ ChecksumDiffers)
        /\ ChecksumUnknown => call.returned = "Err"
        /\ ( ~call.upload_called /\ ~ChecksumUnknown ) => call.returned = "Ok(None)"
        /\ ~call.upload_called => call.stored = 0
        /\ call.after_success => ~call.upload_called

C26_Witness ==
    /\ call.made
    /\ call.after_success
    /\ call.returned = "Ok(None)"
    /\ Len(codes) = 2
    /\ contract.default_code_id = Some(1)
    /\ codes[1] # codes[2]
    /\ get_code_id(cells, "chain.state()", contract.id) = Ok(2)

\* ------------------------------------------------- the tracker, C31-C39

\* C31, as the specification states it: the tracker is Polling (a query in
\* flight: the height query, then the queries of the refresh) or Idle (in
\* its sleep) and nothing else until it is cancelled; Polling is left for the
\* sleep only, and the sleep for the next poll only.
C31_PollingAndIdleOnly ==
    [][ /\ tracker_pc = "start_wait" => tracker_pc' \in { "poll_wait", "cancelled" }
        /\ tracker_pc = "poll_wait" => tracker_pc' \in { "new_state_wait", "sleeping", "cancelled" }
        /\ tracker_pc = "new_state_wait" => tracker_pc' \in { "sleeping", "cancelled" }
        /\ tracker_pc = "sleeping" => tracker_pc' \in { "poll_wait", "cancelled" }
      ]_tracker_pc

\* C32, as the specification states it: the tracker is cancelled in its
\* sleep only, never while a query is in flight.
C32_CancelledAtIterationBoundaryOnly ==
    [][ tracker_pc' = "cancelled" => tracker_pc = "sleeping" ]_tracker_pc

\* C35: the height read at start is never assigned again, and as long as the
\* polled height is not above it no refresh is started, nothing is logged and
\* the tracker holds the initial state.
C35_NoUpdateUpToBaseline ==
    /\ [] ( new_block_height <= block_height =>
              /\ tracker_pc # "new_state_wait"
              /\ updates = 0
              /\ logged = << >>
              /\ state = CwIbcContractState(TrackedConnection, TrackedPort) )
    /\ [][ tracker_pc # "start_wait" => block_height' = block_height ]_all_vars

C35_Witness ==
    /\ tracker_pc = "sleeping"
    /\ block_height = 2
    /\ new_block_height = block_height
    /\ updates = 0
    /\ state = CwIbcContractState(TrackedConnection, TrackedPort)

\* C39: the state new_state answers has the connection id and the port id of
\* the state it was asked on, its channel ids are channels of the chain that
\* are Open on that port, its two maps have the channel ids as their keys,
\* and each channel id is mapped to the sequences committed, and to those
\* of them acknowledged, on that channel.
C39_NewStateIsPerChannel ==
    [][ ( tracker_pc = "new_state_wait" /\ tracker_pc' = "sleeping" ) =>
          LET answered == computed'[2] IN
          /\ answered.connection_id = state.connection_id
          /\ answered.port_id = state.port_id
          /\ \A c \in answered.channel_ids : c \in ChannelIds /\ ledger.status[c] = "Open"
          /\ Keys(answered.committed_packets) = answered.channel_ids
          /\ Keys(answered.acknowledged_packets) = answered.channel_ids
          /\ Cardinality(answered.committed_packets) = Cardinality(answered.channel_ids)
          /\ Cardinality(answered.acknowledged_packets) = Cardinality(answered.channel_ids)
          /\ \A c \in answered.channel_ids :
                /\ Get(answered.committed_packets, c) = ledger.committed[c]
                /\ Get(answered.acknowledged_packets, c)
                      = ledger.acknowledged[c] \cap ledger.committed[c]
      ]_all_vars

C39_Witness ==
    /\ updates >= 1
    /\ state = computed[2]
    /\ state.channel_ids = { "channel-0", "channel-1" }
    /\ Get(state.committed_packets, "channel-0") # Get(state.committed_packets, "channel-1")
    /\ Get(state.acknowledged_packets, "channel-0") # Get(state.acknowledged_packets, "channel-1")

\* ------------------------------------------- the channel pair, C33-C38

\* C34: a follow_packet issues one receive query at most and, after it, one
\* acknowledgment query at most, never sleeps and never starts a loop; a
\* receive query that matched nothing is its last query and ends the call.
C34_FollowPacketQueriesOnce ==
    op = "follow_packet" =>
        /\ Len(queries) <= 2
        /\ Len(queries) >= 1 => queries[1].events[1][1] = "recv_packet"
        /\ Len(queries) = 2 => queries[2].events[1][1] = "acknowledge_packet"
        /\ slept = 0
        /\ attempts = 0
        /\ pc # "sleeping"
        /\ ( Len(answers) >= 1 /\ answers[1].matches = 0 ) =>
              /\ pc = "done"
              /\ Len(queries) = 1
              /\ result.status = "returned"
              /\ ~result.value.ok

C34_Witness ==
    /\ Done("follow_packet")
    /\ Len(queries) = 1
    /\ Len(answers) = 1
    /\ answers[1].matches = 0
    /\ slept = 0
    /\ ReturnedErr(MultipleTxError)

\* C38, as the specification states it: both transactions of a pair that
\* find_new_channel_creation_tx returns are of the connection of the channel
\* pair.
C38_PairIsOfTheConnection ==
    ( Done(FindNew) /\ ReturnedOk ) =>
        \A i \in 1..2 :
            get_first_attribute_value(result.value.val[i].events[1], "connection_id")
                = Some(chan.connection_id)

C37_MemoizedResolutionIsAnAllAnswer ==
    /\ duplicate_resolve_global \in { None, Some("SkipAll"), Some("OverrideAll") }
    /\ import_pc # "unreachable"
    /\ last_import.kind # "unreachable"

C37_Witness ==
    /\ duplicate_resolve_global = Some("SkipAll")
    /\ last_import.kind = "next"
    /\ last_import.duplicate
    /\ last_import.global_before = Some("SkipAll")
    /\ last_import.resolve = "Skip"

\* ------------------------------------------- SyncDaemon::wait_blocks, C40

\* C40, as it is stated: wait_blocks(amount) and next_block() return Ok only
\* when the last height queried is at least the height queried at the call
\* plus amount; with amount 0 Ok is returned after the first query without
\* a sleep; a height query that fails ends the call with its error; and the
\* call ends by returning, never by a panic.
C40_WaitBlocksWaitsForTheBlocks ==
    sync_pc = "done" =>
        /\ sync_result \in { "Ok", "Err" }
        /\ sync_result = "Ok" => last_height >= height_at_call + amount
        /\ ( sync_result = "Ok" /\ amount = 0 ) => sync_sleeps = 0 /\ sync_queries = 1
        /\ sync_op = "next_block" => amount = 1

====
